---------------------------- MODULE Spec2Model ----------------------------
(***************************************************************************)
(* State-machine model of the snake game server (src/server/index.js,      *)
(* src/server/gameLogic.js and the power-up module), for one room.         *)
(*                                                                         *)
(* Conventions.                                                            *)
(*  - Time stamps are Date.now() values in milliseconds; the value 0       *)
(*    stands for the falsy 0 / null the code uses for "not set".           *)
(*  - Timers (setInterval / setTimeout) are armed flags; an armed timer    *)
(*    may fire at any later step.  The clock moves only by Advance, in     *)
(*    steps longer than every timeout and countdown of the server, so it   *)
(*    moves only when none of them is pending.  The ticker is sampled: a   *)
(*    bounded number of its firings is modelled.                           *)
(*  - speedAccumulator is kept doubled (acc2 = 2 * speedAccumulator), so   *)
(*    that the factor 0.5 of a slowed player is the integer 1.             *)
(*  - Tick rates are kept in 1/1000 Hz, so that the 1.5% of solo mode is   *)
(*    an integer.                                                          *)
(*  - Math.random() is a nondeterministic choice from a small set.         *)
(***************************************************************************)
EXTENDS Integers, Sequences, FiniteSets, TLC

(***************************************************************************)
(* Program constants                                                       *)
(***************************************************************************)
GRID_WIDTH == 30
GRID_HEIGHT == 30
BASE_TICK_RATE == 5
SPEED_INCREASE_PER_LEVEL == 2
FOOD_PER_LEVEL == 5
MAX_TICK_RATE == 16
INACTIVITY_THRESHOLD == 60000
WARNING_THRESHOLD == 45000
MAX_PAUSE_TIME == 15 * 60 * 1000
COUNTDOWN_START == 5
POWERUP_DURATION == 7000
POWERUP_SPAWN_INTERVAL_MIN == 12000
POWERUP_SPAWN_INTERVAL_MAX == 20000
MAX_ACTIVE_POWERUPS == 2
POWERUP_LIFETIME == 30000
SURVIVOR_GRACE == 5000
FOOD_SCORE == 10
SURVIVAL_BONUS == 50
SHRINK_SEGMENTS == 3
MAX_PLAYERS == 4

(***************************************************************************)
(* Bounds of the model                                                     *)
(***************************************************************************)
\* number of clock advances in one behaviour
MaxAdvance == 1
\* number of game-loop iterations that advance the simulation
MaxTick == 1
\* the same, in the specification of the room that is started again
MaxReuseTick == 2
\* the same, in the movement specifications
MaxMoveTick == 6
\* the same, in the specification of the direction inputs
MaxInputTick == 3
\* the same, in the specification of the shield
MaxShieldTick == 5
\* the same, in the specification of the two snakes that meet
MaxMeetTick == 15
\* the same, in the specification of the two snakes next to each other
MaxCloseTick == 12
\* saturation of the counter of gameEnded emissions
MaxGameEnded == 2
\* no game-loop iteration is sampled once a score has reached it
MaxScore == 100
\* pending 300 ms "all ready" timeouts
MaxReadyTimers == 1
\* pending room clean-up timeouts
MaxCleanupTimers == 1
\* number of cells the random food placement draws from
MaxFoodCells == 5
\* the clock at the start of a behaviour
ClockStart == 1000

\* the amounts by which the clock may advance in one step
TimeSteps == {50000, MAX_PAUSE_TIME}

(***************************************************************************)
(* Players, connections, directions, cells                                 *)
(***************************************************************************)
Humans == {"p1", "p2"}
Npcs == {"n1"}
\* the ids createPlayerId() hands to players who join after the game state is built
Joiners == {"p3"}
Ids == Humans \cup Npcs \cup Joiners
NoPlayer == "none"
\* player tokens, named after the player they were first issued to; "t3" is
\* the token of a newcomer
Tokens == Humans \cup {"t3"}
\* player names: a roster member's name is its id; "new" is a name not yet taken
Names == Humans \cup {"new"}
Sockets == {"s1", "s2", "s3"}
NoSocket == "none"
Modes == {"multi-player", "single-player", "solo"}
Directions == {"up", "down", "left", "right"}

\* join order of the roster; it is the key order of gameState.players
PlayerOrder == <<"p1", "p2", "n1", "p3">>

IndexOf(id) == CHOOSE i \in 1..Len(PlayerOrder) : PlayerOrder[i] = id

Roster(mode) ==
  IF mode = "multi-player" THEN {"p1", "p2"}
  ELSE IF mode = "single-player" THEN {"p1", "n1"}
  ELSE {"p1"}

PlayerType(id) == IF id \in Npcs THEN "npc" ELSE "human"

Pos(x, y) == [x |-> x, y |-> y]

Min(a, b) == IF a < b THEN a ELSE b
Max(a, b) == IF a > b THEN a ELSE b

\* the elements of a set of player ids in roster order
RECURSIVE OrderedFrom(_, _)
OrderedFrom(S, i) ==
  IF i > Len(PlayerOrder) THEN <<>>
  ELSE IF PlayerOrder[i] \in S THEN <<PlayerOrder[i]>> \o OrderedFrom(S, i + 1)
  ELSE OrderedFrom(S, i + 1)

Ordered(S) == OrderedFrom(S, 1)

SeqToSet(s) == {s[i] : i \in 1..Len(s)}

(***************************************************************************)
(* gameLogic.js: pure functions                                            *)
(***************************************************************************)
calculateLevel(totalFoodEaten) == (totalFoodEaten \div FOOD_PER_LEVEL) + 1

\* in 1/1000 Hz
calculateTickRate(level, gameMode) ==
  LET base == BASE_TICK_RATE + (level - 1) * SPEED_INCREASE_PER_LEVEL
      scaled == IF gameMode = "solo" THEN base * 1015 ELSE base * 1000
  IN Min(scaled, MAX_TICK_RATE * 1000)

opposites(d) ==
  CASE d = "up" -> "down"
    [] d = "down" -> "up"
    [] d = "left" -> "right"
    [] d = "right" -> "left"

\* the first element of startPositions for the index-th player (0-based)
startPositions(index) ==
  LET i == index % 4
  IN CASE i = 0 -> [x |-> 5, y |-> 5, dir |-> "right"]
       [] i = 1 -> [x |-> GRID_WIDTH - 6, y |-> GRID_HEIGHT - 6, dir |-> "left"]
       [] i = 2 -> [x |-> 5, y |-> GRID_HEIGHT - 6, dir |-> "right"]
       [] i = 3 -> [x |-> GRID_WIDTH - 6, y |-> 5, dir |-> "left"]

\* new head of advancePlayers: no wrapping in wall mode, modulo otherwise
NewHead(head, dir, wall) ==
  IF wall
  THEN CASE dir = "up" -> Pos(head.x, head.y - 1)
         [] dir = "down" -> Pos(head.x, head.y + 1)
         [] dir = "left" -> Pos(head.x - 1, head.y)
         [] dir = "right" -> Pos(head.x + 1, head.y)
  ELSE CASE dir = "up" -> Pos(head.x, (head.y - 1 + GRID_HEIGHT) % GRID_HEIGHT)
         [] dir = "down" -> Pos(head.x, (head.y + 1) % GRID_HEIGHT)
         [] dir = "left" -> Pos((head.x - 1 + GRID_WIDTH) % GRID_WIDTH, head.y)
         [] dir = "right" -> Pos((head.x + 1) % GRID_WIDTH, head.y)


(***************************************************************************)
(* State                                                                   *)
(***************************************************************************)
VARIABLES
  rooms,          \* TRUE iff the room is in the room table (rooms.has(code))
  room,           \* the room object (index.js)
  gameState,      \* room.gameState (gameLogic.js createGameState)
  gameLoops,      \* gameLoops.get(code): 0 = no ticker, else its rate in 1/1000 Hz
  readyTimeouts,  \* pending 300 ms timeouts that call startCountdownForRoom
  cleanupTimeouts, \* pending timeouts that delete the room once the game is over
  disconnectTimeouts, \* players whose disconnect timeout is pending
  roomCleanupTimeout, \* TRUE iff roomCleanupTimeouts holds a timeout for the room
  now,            \* Date.now()
  rngCells,       \* the cells Math.random() can produce in this run
  nAdvance,       \* clock advances so far
  emitted,        \* events emitted by the last handler
  gameEndedCount, \* gameEnded emissions of the session so far (saturating)
  idleAtPause,    \* per player: idle time when the current pause began, -1 = none
  createdIds,     \* the ids createPlayerId() has handed out to joining players
  lastJoin,       \* the last joinRoom: its playerToken and the playerId answered
  session,        \* the record of the room in gameSessions: endTime (0 = null), endReason
  publicRooms,    \* TRUE iff publicRooms holds an entry for the room in the room table
  gameSessions,   \* the session table: session id -> roomCode, startTime, endTime (0 = null)
  sessionIds      \* per room code: room.sessionId (NoSessionId if the room has none)

vars == <<rooms, room, gameState, gameLoops, readyTimeouts, cleanupTimeouts,
          disconnectTimeouts, roomCleanupTimeout, now, rngCells,
          nAdvance, emitted, gameEndedCount, idleAtPause, createdIds, lastJoin,
          session, publicRooms, gameSessions, sessionIds>>

\* the room codes of the session table, and room.sessionId of a room whose
\* game has not been started
RoomCodes == {"ROOM1", "ROOM2", "SP1"}
NoSessionId == -1

\* createSessionId(): the string DDMMYY/HH:MM of the clock, which is one
\* string per minute
createSessionId(t) == t \div 60000

\* a session that has not ended: endTime null, no endReason
NoSession == [endTime |-> 0, endReason |-> "none"]

NoWinner == [id |-> NoPlayer, score |-> 0, isLoser |-> FALSE]

NoPowerups == [speedBoost |-> 0, shield |-> 0, shrink |-> 0, slowed |-> 0]

\* the key set of gameState.players
GsIds(gs) == DOMAIN gs.players

AlivePlayers(gs) == {p \in GsIds(gs) : gs.players[p].isAlive}

HumanPlayers(gs) == {p \in GsIds(gs) : gs.players[p].type = "human"}

SnakeCells(snake) == {snake[i] : i \in 1..Len(snake)}

\* occupiedCells of generateFood: alive snakes and existing food
OccupiedCells(gs) ==
  UNION {SnakeCells(gs.players[p].snake) : p \in AlivePlayers(gs)}
    \cup SeqToSet(gs.food)

\* generateFood(gameState, 1): the food arrays one call can leave behind.
\* The cell is drawn at random until a free one is found (at most 100
\* draws); occupiedCells is computed once, before the loop.
generateFood1(food, occupied, cells) ==
  IF cells \ occupied = {} THEN {food}
  ELSE {Append(food, c) : c \in cells \ occupied}

\* generateFood(gameState, count): occupiedCells is not updated between the
\* draws of one call, so two of its draws can produce the same cell.
RECURSIVE generateFood(_, _, _, _)
generateFood(food, occupied, cells, count) ==
  IF count = 0 THEN {food}
  ELSE UNION {generateFood(f, occupied, cells, count - 1) :
                f \in generateFood1(food, occupied, cells)}

\* createGameState: everything but the initial food
createGameState0(ids, hostId, enablePowerups, wallMode, timeLimit, strictMode, t) ==
  [players |-> [p \in ids |->
      LET pos == startPositions(Cardinality({q \in ids : IndexOf(q) < IndexOf(p)}))
      IN [type |-> PlayerType(p),
          snake |-> <<Pos(pos.x, pos.y)>>,
          direction |-> pos.dir,
          nextDirection |-> pos.dir,
          score |-> 0,
          isAlive |-> TRUE,
          survivalStartTime |-> t,
          survivalTime |-> 0,
          acc2 |-> 0,
          isHost |-> (p = hostId),
          activePowerups |-> NoPowerups]],
   food |-> <<>>,
   timer |-> 0,
   startTime |-> 0,
   pauseStartTime |-> 0,
   pauseStartedAt |-> 0,
   totalPauseDuration |-> 0,
   totalPauseTime |-> 0,
   isPaused |-> FALSE,
   winner |-> NoWinner,
   level |-> 1,
   totalFoodEaten |-> 0,
   wallMode |-> wallMode,
   strictMode |-> strictMode,
   timeLimit |-> timeLimit * 60 * 1000,
   lastPlayerInputTime |-> [p \in ids |-> t],
   inactivityWarnings |-> {},
   tickCount |-> 0,
   lastInputTick |-> [p \in ids |-> -1],
   lastSurvivorSince |-> 0,
   powerups |-> <<>>,
   hasPowerups |-> enablePowerups,
   lastPowerUpSpawnTime |-> -1]

\* room.gameState of a room whose game has not been started: null, no
\* player and no start time
NoGameState == createGameState0({}, NoPlayer, FALSE, FALSE, 0, FALSE, 0)

\* createGameState: the states it can return (the food is random)
createGameState(ids, hostId, enablePowerups, wallMode, timeLimit, strictMode, t, cells) ==
  LET gs0 == createGameState0(ids, hostId, enablePowerups, wallMode, timeLimit, strictMode, t)
  IN {[gs0 EXCEPT !.food = f] :
        f \in generateFood(<<>>, OccupiedCells(gs0), cells, Cardinality(ids))}

\* the socket a roster member joined with
JoinSocket(p) == IF p = "p1" THEN "s1" ELSE IF p = "p2" THEN "s2" ELSE NoSocket

\* the room after startGame (multi-player) or startSinglePlayer (solo,
\* single-player) has built the game state: the Ready phase
NewRoom(mode, enablePowerups) ==
  [gameMode |-> mode,
   players |-> [p \in Roster(mode) |->
                  [type |-> PlayerType(p),
                   name |-> p,
                   token |-> IF PlayerType(p) = "human" THEN p ELSE NoPlayer,
                   socketId |-> JoinSocket(p),
                   isHost |-> (p = "p1"),
                   disconnected |-> FALSE]],
   playerTokens |-> [k \in Tokens |->
                       IF k \in Roster(mode) /\ PlayerType(k) = "human"
                       THEN k ELSE NoPlayer],
   socketToPlayerId |-> [s \in Sockets |->
                           IF \E p \in Roster(mode) : JoinSocket(p) = s
                           THEN CHOOSE p \in Roster(mode) : JoinSocket(p) = s
                           ELSE NoPlayer],
   readyPlayers |-> {},
   isGameActive |-> FALSE,
   isPaused |-> FALSE,
   countdownActive |-> FALSE,
   countdownValue |-> 0,
   countdownInterval |-> FALSE,
   resumeCountdownActive |-> FALSE,
   resumeCountdownValue |-> 0,
   resumeCountdownInterval |-> FALSE,
   enablePowerups |-> enablePowerups,
   maxPauseTime |-> MAX_PAUSE_TIME,
   isPublic |-> FALSE]

\* the far cell no snake reaches within the bounds, and the cells in front
\* of the first player's start position
FarCell == Pos(15, 15)
RowCells == {Pos(5 + i, 5) : i \in 1..MaxFoodCells}

InitWith(modes, powerupFlags, wallModes, strictModes, timeLimits, cells) ==
  /\ rooms = TRUE
  /\ now = ClockStart
  /\ nAdvance = 0
  /\ rngCells = cells
  /\ \E mode \in modes, pu \in powerupFlags :
       /\ room = NewRoom(mode, pu)
       /\ \E wall \in wallModes, strict \in strictModes, tl \in timeLimits :
            gameState \in createGameState(Roster(mode), "p1", pu, wall, tl,
                                          IF mode = "multi-player" THEN strict ELSE FALSE,
                                          ClockStart, cells)
  /\ gameLoops = 0
  /\ readyTimeouts = 0
  /\ cleanupTimeouts = 0
  /\ disconnectTimeouts = {}
  /\ roomCleanupTimeout = FALSE
  /\ emitted = {}
  /\ gameEndedCount = 0
  /\ idleAtPause = [p \in Ids |-> -1]
  /\ createdIds = {}
  /\ lastJoin = [token |-> NoPlayer, playerId |-> NoPlayer]
  /\ session = NoSession
  /\ publicRooms = FALSE
  /\ gameSessions = [id \in {} |-> NoSession]
  /\ sessionIds = [c \in RoomCodes |-> NoSessionId]


(***************************************************************************)
(* Power-ups module                                                        *)
(***************************************************************************)
PowerupTypes == {"speed_boost", "shield", "shrink", "slow_others"}

\* hasActivePowerUp(player, key), key one of the fields of activePowerups
hasActivePowerUp(player, key, t) == player.activePowerups[key] > t

\* twice the factor of getPlayerSpeedFactor
getPlayerSpeedFactor(player, enablePowerups, t) ==
  IF ~enablePowerups THEN 2
  ELSE LET boosted == IF hasActivePowerUp(player, "speedBoost", t) THEN 4 ELSE 2
       IN IF hasActivePowerUp(player, "slowed", t) THEN boosted \div 2 ELSE boosted

cancelPlayerPowerUps(player) == [player EXCEPT !.activePowerups = NoPowerups]

RemoveAt(s, i) == SubSeq(s, 1, i - 1) \o SubSeq(s, i + 1, Len(s))

\* the snake after at most SHRINK_SEGMENTS pops that keep one segment
Shrunk(snake) == SubSeq(snake, 1, Max(1, Len(snake) - SHRINK_SEGMENTS))

applyPowerUp(gs, p, type, t) ==
  LET endTime == t + POWERUP_DURATION
      cleared == IF type # "slow_others" THEN NoPowerups
                 ELSE gs.players[p].activePowerups
  IN [gs EXCEPT !.players = [q \in GsIds(gs) |->
        IF q = p
        THEN CASE type = "speed_boost" ->
                    [gs.players[q] EXCEPT !.activePowerups = [cleared EXCEPT !.speedBoost = endTime]]
               [] type = "shield" ->
                    [gs.players[q] EXCEPT !.activePowerups = [cleared EXCEPT !.shield = endTime]]
               [] type = "shrink" ->
                    [gs.players[q] EXCEPT !.activePowerups = [cleared EXCEPT !.shrink = endTime],
                                          !.snake = Shrunk(gs.players[q].snake)]
               [] type = "slow_others" -> gs.players[q]
        ELSE IF type = "slow_others" /\ gs.players[q].isAlive
             THEN [gs.players[q] EXCEPT !.activePowerups.slowed = endTime]
             ELSE gs.players[q]]]

\* index of the first power-up on the cell, 0 if none
PowerupAt(powerups, cell) ==
  IF \E i \in 1..Len(powerups) : Pos(powerups[i].x, powerups[i].y) = cell
  THEN CHOOSE i \in 1..Len(powerups) :
         /\ Pos(powerups[i].x, powerups[i].y) = cell
         /\ \A j \in 1..(i - 1) : Pos(powerups[j].x, powerups[j].y) # cell
  ELSE 0

RECURSIVE checkPowerUpCollisionsFrom(_, _, _, _)
checkPowerUpCollisionsFrom(gs, order, i, t) ==
  IF i > Len(order) THEN gs
  ELSE LET p == order[i]
           k == IF gs.players[p].isAlive
                THEN PowerupAt(gs.powerups, gs.players[p].snake[1])
                ELSE 0
       IN IF k = 0 THEN checkPowerUpCollisionsFrom(gs, order, i + 1, t)
          ELSE checkPowerUpCollisionsFrom(
                 [applyPowerUp(gs, p, gs.powerups[k].type, t)
                    EXCEPT !.powerups = RemoveAt(gs.powerups, k)],
                 order, i + 1, t)

checkPowerUpCollisions(gs, t) ==
  IF Len(gs.powerups) = 0 THEN gs
  ELSE checkPowerUpCollisionsFrom(gs, Ordered(GsIds(gs)), 1, t)

\* the states spawnPowerUp can leave: the spawn interval, the cell and the
\* type are random
spawnPowerUp(gs, t, cells) ==
  IF gs.lastPowerUpSpawnTime = -1 THEN {[gs EXCEPT !.lastPowerUpSpawnTime = t]}
  ELSE IF Len(gs.powerups) >= MAX_ACTIVE_POWERUPS THEN {gs}
  ELSE LET since == t - gs.lastPowerUpSpawnTime
           occupied == OccupiedCells(gs)
                         \cup {Pos(gs.powerups[i].x, gs.powerups[i].y) : i \in 1..Len(gs.powerups)}
           spawned == {[gs EXCEPT !.powerups = Append(@, [x |-> c.x, y |-> c.y,
                                                         type |-> ty, spawnTime |-> t]),
                                  !.lastPowerUpSpawnTime = t] :
                         c \in cells \ occupied, ty \in PowerupTypes}
       IN IF since < POWERUP_SPAWN_INTERVAL_MIN THEN {gs}
          ELSE IF cells \ occupied = {} THEN {gs}
          ELSE IF since < POWERUP_SPAWN_INTERVAL_MAX THEN spawned \cup {gs}
          ELSE spawned

updatePowerUps(gs, t) ==
  LET Fresh(pw) == t - pw.spawnTime < POWERUP_LIFETIME
      Keep(e) == IF e < t THEN 0 ELSE e
  IN [gs EXCEPT !.powerups = SelectSeq(gs.powerups, Fresh),
                !.players = [q \in GsIds(gs) |->
                   [gs.players[q] EXCEPT !.activePowerups =
                      [k \in DOMAIN NoPowerups |-> Keep(gs.players[q].activePowerups[k])]]]]


(***************************************************************************)
(* gameLogic.js: win condition, collisions, movement                       *)
(***************************************************************************)
\* the comparator of the sort in checkWinCondition: a sorts before b
SortsBefore(a, b) ==
  \/ a.score > b.score
  \/ /\ a.score = b.score
     /\ \/ a.isAlive /\ ~b.isAlive
        \/ (a.isAlive = b.isAlive) /\ a.survivalTime > b.survivalTime

\* the winner chosen among the alive players first, whatever the scores
SurvivorFirst(players) ==
  CHOOSE p \in DOMAIN players :
    \A q \in DOMAIN players \ {p} :
      \/ players[p].isAlive /\ ~players[q].isAlive
      \/ players[p].isAlive = players[q].isAlive /\ IndexOf(p) < IndexOf(q)

\* sortedByScore[0]: the sort is stable, ties keep the key order
TopPlayer(players) ==
  CHOOSE p \in DOMAIN players :
    /\ \A q \in DOMAIN players : ~SortsBefore(players[q], players[p])
    /\ \A q \in DOMAIN players :
         (~SortsBefore(players[p], players[q]) /\ q # p) => IndexOf(p) < IndexOf(q)

RECURSIVE SumScores(_, _)
SumScores(players, S) ==
  IF S = {} THEN 0
  ELSE LET p == CHOOSE q \in S : TRUE
       IN players[p].score + SumScores(players, S \ {p})

WinnerOf(players, p, loser) == [id |-> p, score |-> players[p].score, isLoser |-> loser]

checkWinCondition(gs0, timeLimitReached, t) ==
  LET alive == AlivePlayers(gs0)
      all == GsIds(gs0)
      gs == IF timeLimitReached
            THEN [gs0 EXCEPT !.players = [p \in all |->
                    IF p \in alive
                    THEN [gs0.players[p] EXCEPT !.score = @ + SURVIVAL_BONUS]
                    ELSE gs0.players[p]]]
            ELSE gs0
      humans == HumanPlayers(gs)
  IN IF Cardinality(humans) = 1 /\ Cardinality(all) > 1
     THEN LET h == CHOOSE q \in humans : TRUE
          IN IF gs.players[h].isAlive
             THEN [gs EXCEPT !.winner = NoWinner]
             ELSE [gs EXCEPT !.winner = WinnerOf(gs.players, h, TRUE)]
     ELSE IF Cardinality(all) = 1
     THEN LET solo == CHOOSE q \in all : TRUE
          IN IF gs.players[solo].isAlive
             THEN [gs EXCEPT !.winner = NoWinner]
             ELSE [gs EXCEPT !.winner = WinnerOf(gs.players, solo, TRUE)]
     ELSE IF alive = {}
     THEN [gs EXCEPT !.winner = WinnerOf(gs.players, TopPlayer(gs.players), FALSE)]
     ELSE IF Cardinality(alive) = 1 /\ Cardinality(all) > 1
     THEN LET totalScore == SumScores(gs.players, all)
              since == IF gs.lastSurvivorSince = 0 THEN t ELSE gs.lastSurvivorSince
              last == CHOOSE q \in alive : TRUE
              bonus == [gs.players EXCEPT ![last].score = @ + SURVIVAL_BONUS]
              ended(g) == [g EXCEPT !.players = bonus,
                                    !.winner = WinnerOf(bonus, TopPlayer(bonus), FALSE)]
          IN IF totalScore = 0
             THEN IF t - since < SURVIVOR_GRACE
                  THEN [gs EXCEPT !.lastSurvivorSince = since, !.winner = NoWinner]
                  ELSE ended([gs EXCEPT !.lastSurvivorSince = since])
             ELSE ended([gs EXCEPT !.lastSurvivorSince = 0])
     ELSE [gs EXCEPT !.lastSurvivorSince = 0, !.winner = NoWinner]

\* checkCollision without the pass-through rule of multi-player rooms
checkCollisionBlocking(gs, p, newHead, mode) ==
  LET player == gs.players[p]
      immune(q) == mode = "single-player" /\ player.type # gs.players[q].type
      hits(q) ==
        LET other == gs.players[q].snake
        IN Len(other) > 0 /\
           IF gs.strictMode THEN newHead \in SnakeCells(other) ELSE newHead = other[1]
  IN IF gs.startTime = 0 THEN "none"
     ELSE IF gs.wallMode /\ (newHead.x < 0 \/ newHead.x >= GRID_WIDTH
                             \/ newHead.y < 0 \/ newHead.y >= GRID_HEIGHT)
     THEN "wall"
     ELSE IF \E i \in 2..Len(player.snake) : player.snake[i] = newHead
     THEN "self"
     ELSE IF \E q \in GsIds(gs) \ {p} : gs.players[q].isAlive /\ ~immune(q) /\ hits(q)
     THEN "head-to-body"
     ELSE "none"

\* checkCollision that looks at the head of the other snake only, whatever
\* the strict mode
checkCollisionHeadOnly(gs, p, newHead, mode) ==
  LET player == gs.players[p]
      immune(q) ==
        \/ mode = "single-player" /\ player.type # gs.players[q].type
        \/ mode = "multi-player" /\ ~gs.wallMode /\ ~gs.strictMode
      hits(q) ==
        LET other == gs.players[q].snake
        IN Len(other) > 0 /\ newHead = other[1]
  IN IF gs.startTime = 0 THEN "none"
     ELSE IF gs.wallMode /\ (newHead.x < 0 \/ newHead.x >= GRID_WIDTH
                             \/ newHead.y < 0 \/ newHead.y >= GRID_HEIGHT)
     THEN "wall"
     ELSE IF \E i \in 2..Len(player.snake) : player.snake[i] = newHead
     THEN "self"
     ELSE IF \E q \in GsIds(gs) \ {p} : gs.players[q].isAlive /\ ~immune(q) /\ hits(q)
     THEN "head-to-body"
     ELSE "none"

\* the collision type, or "none"
checkCollision(gs, p, newHead, mode) ==
  LET player == gs.players[p]
      immune(q) ==
        \/ mode = "single-player" /\ player.type # gs.players[q].type
        \/ mode = "multi-player" /\ ~gs.wallMode /\ ~gs.strictMode
      hits(q) ==
        LET other == gs.players[q].snake
        IN Len(other) > 0 /\
           IF gs.strictMode THEN newHead \in SnakeCells(other) ELSE newHead = other[1]
  IN IF gs.startTime = 0 THEN "none"
     ELSE IF gs.wallMode /\ (newHead.x < 0 \/ newHead.x >= GRID_WIDTH
                             \/ newHead.y < 0 \/ newHead.y >= GRID_HEIGHT)
     THEN "wall"
     ELSE IF \E i \in 2..Len(player.snake) : player.snake[i] = newHead
     THEN "self"
     ELSE IF \E q \in GsIds(gs) \ {p} : gs.players[q].isAlive /\ ~immune(q) /\ hits(q)
     THEN "head-to-body"
     ELSE "none"

\* a player dies in advancePlayers
KillMover(gs, p, mode, enablePowerups, t) ==
  LET dead == [gs.players[p] EXCEPT !.isAlive = FALSE,
                                    !.survivalTime = t - gs.players[p].survivalStartTime]
      gs1 == [gs EXCEPT !.players[p] =
                IF enablePowerups THEN cancelPlayerPowerUps(dead) ELSE dead]
  IN IF Cardinality(HumanPlayers(gs1)) = 1 /\ mode \in {"single-player", "solo"}
     THEN checkWinCondition(gs1, FALSE, t)
     ELSE gs1

\* index of the first food on the cell, 0 if none
FoodAt(food, cell) ==
  IF \E i \in 1..Len(food) : food[i] = cell
  THEN CHOOSE i \in 1..Len(food) : food[i] = cell /\ \A j \in 1..(i - 1) : food[j] # cell
  ELSE 0

\* third pass of advancePlayers for one mover: the states it can leave
MoveOne(gs, p, head, hasShield, collided, mode, enablePowerups, t, cells) ==
  IF ~gs.players[p].isAlive THEN {gs}
  ELSE IF collided THEN {KillMover(gs, p, mode, enablePowerups, t)}
  ELSE IF checkCollision(gs, p, head, mode) # "none" /\ ~hasShield
  THEN {KillMover(gs, p, mode, enablePowerups, t)}
  ELSE LET grown == <<head>> \o gs.players[p].snake
           k == FoodAt(gs.food, head)
       IN IF k # 0
          THEN LET eaten == gs.totalFoodEaten + 1
                   gs1 == [gs EXCEPT !.players[p].snake = grown,
                                     !.players[p].score = @ + FOOD_SCORE,
                                     !.food = RemoveAt(gs.food, k),
                                     !.totalFoodEaten = eaten,
                                     !.level = calculateLevel(eaten)]
               IN {[gs1 EXCEPT !.food = f] :
                     f \in generateFood(gs1.food, OccupiedCells(gs1), cells, 1)}
          ELSE {[gs EXCEPT !.players[p].snake = SubSeq(grown, 1, Len(grown) - 1)]}

RECURSIVE MoveAll(_, _, _, _, _, _, _, _, _, _)
MoveAll(S, order, i, heads, shields, h2h, mode, enablePowerups, t, cells) ==
  IF i > Len(order) THEN S
  ELSE MoveAll(UNION {MoveOne(gs, order[i], heads[order[i]], shields[order[i]],
                              order[i] \in h2h, mode, enablePowerups, t, cells) : gs \in S},
               order, i + 1, heads, shields, h2h, mode, enablePowerups, t, cells)

\* advancePlayers for movingPlayers in the given order (the third pass is
\* movingPlayers.forEach): the states it can leave
advancePlayersInOrder(gs0, moving, order, mode, enablePowerups, t, cells) ==
  LET movers == {p \in moving : gs0.players[p].isAlive}
      gs == [gs0 EXCEPT !.players = [p \in GsIds(gs0) |->
               IF p \in movers
               THEN [gs0.players[p] EXCEPT !.direction = gs0.players[p].nextDirection]
               ELSE gs0.players[p]]]
      heads == [p \in movers |->
                  NewHead(gs.players[p].snake[1], gs.players[p].direction, gs.wallMode)]
      shields == [p \in movers |->
                    enablePowerups /\ hasActivePowerUp(gs.players[p], "shield", t)]
      group(p) == {q \in movers : heads[q] = heads[p]}
      skipped(p) ==
        \/ /\ mode = "single-player"
           /\ \E q \in group(p) : gs.players[q].type = "human"
           /\ \E q \in group(p) : gs.players[q].type = "npc"
        \/ mode = "multi-player" /\ ~gs.wallMode /\ ~gs.strictMode
      h2h == {p \in movers : /\ Cardinality(group(p)) >= 2
                             /\ ~skipped(p)
                             /\ \E q \in group(p) : ~shields[q]}
  IN MoveAll({gs}, order, 1, heads, shields, h2h, mode, enablePowerups, t, cells)

\* advancePlayers(gameState, movingPlayers, ...): movingPlayers is filtered
\* from Object.values(gameState.players), in key order
advancePlayers(gs0, moving, mode, enablePowerups, t, cells) ==
  advancePlayersInOrder(gs0, moving,
                        Ordered({p \in moving : gs0.players[p].isAlive}),
                        mode, enablePowerups, t, cells)


(***************************************************************************)
(* The server state a handler works on, and what it emits.  A handler is   *)
(* a function from one such record to the set of records it can leave.     *)
(***************************************************************************)
World ==
  [rooms |-> rooms, room |-> room, gs |-> gameState, loops |-> gameLoops,
   readyTimeouts |-> readyTimeouts, cleanupTimeouts |-> cleanupTimeouts,
   disconnectTimeouts |-> disconnectTimeouts, roomCleanupTimeout |-> roomCleanupTimeout,
   session |-> session, publicRooms |-> publicRooms, ev |-> {}, ended |-> 0]

\* io.to(room.code).emit(e) or socket.emit(e)
Emit(w, e) ==
  [w EXCEPT !.ev = @ \cup {e},
            !.ended = IF e = "gameEnded" THEN @ + 1 ELSE @]

\* the handler returns: its effects become the next state
Commit(w) ==
  /\ rooms' = w.rooms
  /\ room' = w.room
  /\ gameState' = w.gs
  /\ gameLoops' = w.loops
  /\ readyTimeouts' = w.readyTimeouts
  /\ cleanupTimeouts' = w.cleanupTimeouts
  /\ disconnectTimeouts' = w.disconnectTimeouts
  /\ roomCleanupTimeout' = w.roomCleanupTimeout
  /\ session' = w.session
  /\ publicRooms' = (w.publicRooms /\ w.rooms)
  /\ emitted' = w.ev
  /\ gameEndedCount' = Min(gameEndedCount + w.ended, MaxGameEnded)

\* markSessionAsEnded(roomCode, reason): the session of the room, unless it
\* has an endTime already
markSessionAsEnded(w, reason, t) ==
  IF w.session.endTime = 0
  THEN [w EXCEPT !.session = [endTime |-> t, endReason |-> reason]]
  ELSE w

\* broadcastPublicRooms(io): buildPublicRoomsList drops the entry of a room
\* that is gone or that shouldRoomBePublic refuses, and the list is sent to
\* every connection
broadcastPublicRooms(w) ==
  LET r == w.room
      shouldRoomBePublic ==
        /\ r.gameMode = "multi-player"
        /\ r.isPublic
        /\ ~r.isGameActive
        /\ ~r.countdownActive
        /\ Cardinality(DOMAIN r.players) >= 1
        /\ Cardinality(DOMAIN r.players) < 4
  IN Emit([w EXCEPT !.publicRooms = @ /\ w.rooms /\ shouldRoomBePublic],
          "publicRoomsUpdated")

\* a host who leaves a public room makes it private and unlisted
HostLeaves(w, p) ==
  IF w.room.players[p].isHost /\ w.room.isPublic
  THEN broadcastPublicRooms([w EXCEPT !.room.isPublic = FALSE, !.publicRooms = FALSE])
  ELSE w

\* setTimeout(..., 10000) that deletes the room after the game ended
ArmCleanup(w) ==
  [w EXCEPT !.cleanupTimeouts = Min(@ + 1, MaxCleanupTimers)]

stopGameLoop(w) == [w EXCEPT !.loops = 0]

\* elapsed play time: now - startTime - totalPauseDuration
ElapsedTime(gs, t) == t - gs.startTime - gs.totalPauseDuration

\* Math.floor(x / 1000) for an integer x of either sign
FloorSeconds(x) == IF x >= 0 THEN x \div 1000 ELSE -((-x + 999) \div 1000)

startGameLoop(w0, t) ==
  LET w == stopGameLoop(w0)
      started == IF ~w.room.countdownActive /\ w.gs.startTime = 0
                 THEN [w.gs EXCEPT !.startTime = t, !.timer = 0]
                 ELSE w.gs
      gs1 == [started EXCEPT !.timer = Max(0, FloorSeconds(ElapsedTime(started, t)))]
  IN Emit([w EXCEPT !.gs = gs1,
                    !.loops = calculateTickRate(gs1.level, w.room.gameMode)],
          "gameStateUpdate")

\* the token map left as it is
KeepToken(tokens, player) == tokens

\* room.playerTokens.delete(player.token)
WithoutToken(tokens, player) ==
  IF player.token \in Tokens THEN [tokens EXCEPT ![player.token] = NoPlayer] ELSE tokens

\* room.players without one member
WithoutPlayer(players, p) == [q \in DOMAIN players \ {p} |-> players[q]]

\* checkPlayerInactivity, the body of its loop for one player: the result
\* is a set because the new host of a multi-player room is drawn at random
InactivityOne(w, p, t) ==
  LET gs == w.gs
      player == gs.players[p]
      isMultiplayer == w.room.gameMode = "multi-player"
      inactiveDuration == t - gs.lastPlayerInputTime[p]
      inRoom == p \in DOMAIN w.room.players
      hasSocket == inRoom /\ w.room.players[p].socketId # NoSocket
      warned ==
        IF /\ isMultiplayer
           /\ inactiveDuration >= WARNING_THRESHOLD
           /\ inactiveDuration < INACTIVITY_THRESHOLD
           /\ p \notin gs.inactivityWarnings
           /\ hasSocket
        THEN Emit([w EXCEPT !.gs.inactivityWarnings = @ \cup {p}], "inactivityWarning")
        ELSE w
      dead == IF w.room.enablePowerups
              THEN cancelPlayerPowerUps([player EXCEPT !.isAlive = FALSE])
              ELSE [player EXCEPT !.isAlive = FALSE]
      kicked ==
        LET roomPlayer == w.room.players[p]
            rest == WithoutPlayer(w.room.players, p)
            w1 == [warned EXCEPT
                     !.gs.players[p] = dead,
                     !.room.players = rest,
                     !.room.playerTokens = WithoutToken(@, roomPlayer),
                     !.room.socketToPlayerId =
                        [s \in Sockets |-> IF s = roomPlayer.socketId THEN NoPlayer ELSE @[s]]]
            w2 == IF roomPlayer.socketId # NoSocket
                  THEN Emit(w1, "playerKicked") ELSE w1
            hosts == IF roomPlayer.isHost /\ DOMAIN rest # {}
                     THEN {Emit([w2 EXCEPT !.room.players[h].isHost = TRUE], "hostChanged") :
                             h \in DOMAIN rest}
                     ELSE {w2}
        IN {IF x.room.isGameActive
            THEN Emit(Emit(x, "playerLeft"), "gameStateUpdate")
            ELSE Emit(x, "playerLeft") : x \in hosts}
      ended ==
        LET gs1 == checkWinCondition([warned.gs EXCEPT !.players[p] = dead], FALSE, t)
        IN Emit(stopGameLoop([warned EXCEPT
                  !.gs = gs1,
                  !.room.isGameActive = FALSE,
                  !.session = [endTime |-> t,
                               endReason |-> IF hasSocket THEN "player_inactive"
                                             ELSE "player_inactive_disconnected"]]),
                "gameEnded")
  IN IF player.type # "human" \/ ~player.isAlive THEN {w}
     ELSE IF inactiveDuration > INACTIVITY_THRESHOLD
     THEN IF isMultiplayer
          THEN IF inRoom THEN kicked ELSE {warned}
          ELSE IF ~hasSocket THEN {ended}
          ELSE IF gs.winner = NoWinner THEN {ended}
          ELSE {warned}
     ELSE {warned}

RECURSIVE InactivityFrom(_, _, _, _)
InactivityFrom(S, order, i, t) ==
  IF i > Len(order) THEN S
  ELSE InactivityFrom(UNION {InactivityOne(w, order[i], t) : w \in S}, order, i + 1, t)

checkPlayerInactivity(w, t) ==
  IF w.gs.startTime = 0 THEN {w}
  ELSE IF w.gs.isPaused \/ w.room.isPaused THEN {w}
  ELSE InactivityFrom({w}, Ordered(GsIds(w.gs)), 1, t)


(***************************************************************************)
(* gameLogic.js: one simulation step and the ticker                        *)
(***************************************************************************)
\* the movement sub-steps of updateGameState: states after at most `left'
\* further calls of advancePlayers
RECURSIVE SubSteps(_, _, _, _, _, _)
SubSteps(gs, left, mode, enablePowerups, t, cells) ==
  LET moving == {p \in AlivePlayers(gs) : gs.players[p].acc2 >= 2}
      spent == [gs EXCEPT !.players = [p \in GsIds(gs) |->
                  IF p \in moving
                  THEN [gs.players[p] EXCEPT !.acc2 = @ - 2]
                  ELSE gs.players[p]]]
  IN IF left = 0 \/ moving = {} THEN {gs}
     ELSE UNION {IF g.winner # NoWinner THEN {g}
                 ELSE SubSteps(g, left - 1, mode, enablePowerups, t, cells) :
                   g \in advancePlayers(spent, moving, mode, enablePowerups, t, cells)}

\* maximum of a non-empty set of naturals, 0 for the empty set
MaxOf(S) == IF S = {} THEN 0 ELSE CHOOSE m \in S : \A n \in S : n <= m

\* updateGameState(room, enablePowerups, io): the game states it can leave
updateGameState(w, t, cells) ==
  LET gs0 == w.gs
      mode == w.room.gameMode
      pu == w.room.enablePowerups
      elapsedTime == ElapsedTime(gs0, t)
      ticked == [gs0 EXCEPT !.tickCount = @ + 1, !.timer = FloorSeconds(elapsedTime)]
      powered == IF pu
                 THEN {updatePowerUps(checkPowerUpCollisions(g, t), t) :
                         g \in spawnPowerUp(ticked, t, cells)}
                 ELSE {ticked}
      charged(g) == [g EXCEPT !.players = [p \in GsIds(g) |->
                       IF g.players[p].isAlive
                       THEN [g.players[p] EXCEPT
                               !.acc2 = @ + getPlayerSpeedFactor(g.players[p], pu, t)]
                       ELSE g.players[p]]]
      maxSteps(g) == MaxOf({g.players[p].acc2 \div 2 : p \in AlivePlayers(g)})
      moved == UNION {SubSteps(charged(g), maxSteps(charged(g)), mode, pu, t, cells) :
                        g \in powered}
  IN IF w.room.isPaused \/ gs0.isPaused THEN {gs0}
     ELSE IF w.room.countdownActive \/ gs0.startTime = 0 THEN {gs0}
     ELSE IF gs0.timeLimit # 0 /\ elapsedTime >= gs0.timeLimit
     THEN {checkWinCondition(ticked, TRUE, t)}
     ELSE {checkWinCondition(g, FALSE, t) : g \in moved}

\* processNPCInputs: every alive NPC takes the direction its AI decided,
\* unless it is the opposite of its committed direction
processNPCInputs(gs, decision) ==
  [gs EXCEPT !.players = [p \in GsIds(gs) |->
     IF /\ gs.players[p].type = "npc"
        /\ gs.players[p].isAlive
        /\ decision \in Directions
        /\ opposites(decision) # gs.players[p].direction
     THEN [gs.players[p] EXCEPT !.nextDirection = decision]
     ELSE gs.players[p]]]

\* respawnNPCsIfNeeded that does not look at the human player's life
respawnNPCsAnyway(gs, t, cells) ==
  LET humans == HumanPlayers(gs)
      npcs == GsIds(gs) \ humans
      human == CHOOSE h \in humans : TRUE
      occupied == SnakeCells(gs.players[human].snake)
      corners == {i \in 0..3 : Pos(startPositions(i).x, startPositions(i).y) \notin occupied}
      first == CHOOSE i \in corners : \A j \in corners : i <= j
      deadNPC == CHOOSE n \in npcs : \A m \in npcs : IndexOf(n) <= IndexOf(m)
      spots == IF corners # {}
               THEN {startPositions(first)}
               ELSE IF cells \ occupied # {}
               THEN {[x |-> c.x, y |-> c.y, dir |-> "right"] : c \in cells \ occupied}
               ELSE {startPositions(0)}
  IN IF Cardinality(humans) # 1 \/ npcs = {} THEN {gs}
     ELSE IF \E n \in npcs : gs.players[n].isAlive THEN {gs}
     ELSE {[gs EXCEPT !.players[deadNPC] =
              [@ EXCEPT !.isAlive = TRUE,
                        !.snake = <<Pos(pos.x, pos.y)>>,
                        !.direction = pos.dir,
                        !.nextDirection = pos.dir,
                        !.score = 0,
                        !.acc2 = 0,
                        !.survivalStartTime = t,
                        !.survivalTime = 0]] : pos \in spots}

\* respawnNPCsIfNeeded: with no NPC alive and the human alive, the first
\* dead NPC comes back on the first corner the human's snake does not cover
respawnNPCsIfNeeded(gs, t, cells) ==
  LET humans == HumanPlayers(gs)
      npcs == GsIds(gs) \ humans
      human == CHOOSE h \in humans : TRUE
      occupied == SnakeCells(gs.players[human].snake)
      corners == {i \in 0..3 : Pos(startPositions(i).x, startPositions(i).y) \notin occupied}
      first == CHOOSE i \in corners : \A j \in corners : i <= j
      deadNPC == CHOOSE n \in npcs : \A m \in npcs : IndexOf(n) <= IndexOf(m)
      spots == IF corners # {}
               THEN {startPositions(first)}
               ELSE IF cells \ occupied # {}
               THEN {[x |-> c.x, y |-> c.y, dir |-> "right"] : c \in cells \ occupied}
               ELSE {startPositions(0)}
  IN IF Cardinality(humans) # 1 \/ npcs = {} THEN {gs}
     ELSE IF ~gs.players[human].isAlive THEN {gs}
     ELSE IF \E n \in npcs : gs.players[n].isAlive THEN {gs}
     ELSE {[gs EXCEPT !.players[deadNPC] =
              [@ EXCEPT !.isAlive = TRUE,
                        !.snake = <<Pos(pos.x, pos.y)>>,
                        !.direction = pos.dir,
                        !.nextDirection = pos.dir,
                        !.score = 0,
                        !.acc2 = 0,
                        !.survivalStartTime = t,
                        !.survivalTime = 0]] : pos \in spots}

\* the end-of-game block of gameLoopIteration
EndIfOver(w, t) ==
  LET allPlayersDead == w.room.gameMode = "solo" /\ AlivePlayers(w.gs) = {}
      over == Emit(stopGameLoop([w EXCEPT !.room.isGameActive = FALSE,
                                          !.session.endTime = t]), "gameEnded")
  IN IF w.gs.winner # NoWinner \/ allPlayersDead
     THEN IF w.room.gameMode = "multi-player" THEN ArmCleanup(over) ELSE over
     ELSE w

\* gameLoopIteration after the pause check, for a game that is not paused
RunIteration(w0, t, cells, decision) ==
  LET elapsedTime == ElapsedTime(w0.gs, t)
      timed == IF w0.gs.startTime > 0
               THEN [w0 EXCEPT !.gs.timer = FloorSeconds(elapsedTime)]
               ELSE [w0 EXCEPT !.gs.timer = 0]
      single == w0.room.gameMode = "single-player"
      simulate(w) ==
        LET w1 == IF single
                  THEN [w EXCEPT !.gs = processNPCInputs(w.gs, decision)]
                  ELSE w
            updated == updateGameState(w1, t, cells)
            respawned == IF single
                         THEN UNION {respawnNPCsIfNeeded(g, t, cells) : g \in updated}
                         ELSE updated
        IN {LET w2 == [w1 EXCEPT !.gs = g]
            IN IF calculateLevel(g.totalFoodEaten) # g.level
               THEN startGameLoop(
                      [w2 EXCEPT !.gs.level = calculateLevel(g.totalFoodEaten)], t)
               ELSE EndIfOver(Emit(w2, "gameStateUpdate"), t) : g \in respawned}
  IN IF w0.gs.startTime > 0 /\ w0.gs.timeLimit # 0 /\ elapsedTime >= w0.gs.timeLimit
     THEN {[timed EXCEPT !.gs = checkWinCondition(timed.gs, TRUE, t)]}
     ELSE UNION {IF w.room.isPaused \/ w.gs.isPaused
                 THEN {Emit(w, "gameStateUpdate")}
                 ELSE simulate(w) : w \in checkPlayerInactivity(timed, t)}

\* gameLoopIteration: the callback of the ticker
gameLoopIteration(w, t, cells, decision) ==
  IF ~w.room.isGameActive \/ w.room.countdownActive THEN {w}
  ELSE IF w.room.isPaused \/ w.gs.isPaused THEN {Emit(w, "gameStateUpdate")}
  ELSE RunIteration(w, t, cells, decision)


(***************************************************************************)
(* index.js: helpers                                                       *)
(***************************************************************************)
\* getPlayerIdFromSocket(room, socketId), NoPlayer for null
getPlayerIdFromSocket(r, s) ==
  IF r.socketToPlayerId[s] # NoPlayer THEN r.socketToPlayerId[s]
  ELSE IF \E p \in DOMAIN r.players : r.players[p].socketId = s
  THEN CHOOSE p \in DOMAIN r.players :
         /\ r.players[p].socketId = s
         /\ \A q \in DOMAIN r.players : r.players[q].socketId = s => IndexOf(p) <= IndexOf(q)
  ELSE NoPlayer

\* getPlayerBySocket(room, socketId): the id of the room member, NoPlayer for null
getPlayerBySocket(r, s) ==
  LET id == getPlayerIdFromSocket(r, s)
  IN IF id \in DOMAIN r.players THEN id ELSE NoPlayer

mapSocketToPlayer(r, s, p) == [r EXCEPT !.socketToPlayerId[s] = p]

updateGameStateHost(gs, newHostId) ==
  [gs EXCEPT !.players = [p \in GsIds(gs) |->
     [gs.players[p] EXCEPT !.isHost = (p = newHostId)]]]

RoomHumans(r) == {p \in DOMAIN r.players : r.players[p].type = "human"}

(***************************************************************************)
(* index.js: ready phase and the two countdowns                            *)
(***************************************************************************)
\* socket.on('playerReady'): s is the sending connection, claimed the
\* currentPlayerId field of the message (NoPlayer if absent)
onPlayerReady(w, s, claimed) ==
  LET r0 == w.room
      playerId == IF claimed \in DOMAIN r0.players THEN claimed
                  ELSE getPlayerBySocket(r0, s)
      rebound == IF r0.players[playerId].socketId # s
                 THEN mapSocketToPlayer([r0 EXCEPT !.players[playerId].socketId = s],
                                        s, playerId)
                 ELSE r0
      r == [rebound EXCEPT !.readyPlayers = @ \cup {playerId}]
      humans == RoomHumans(r)
      allHumanPlayersReady == humans # {} /\ humans \subseteq r.readyPlayers
      allPlayersReady == /\ humans # {}
                         /\ Cardinality(humans) = Cardinality(r.readyPlayers)
                         /\ humans \subseteq r.readyPlayers
      w1 == [w EXCEPT !.room = r]
      go(x) == [Emit(x, "allPlayersReady") EXCEPT
                  !.readyTimeouts = Min(@ + 1, MaxReadyTimers)]
  IN IF ~w.rooms THEN Emit(w, "error")
     ELSE IF playerId = NoPlayer THEN Emit(w, "error")
     ELSE IF r.gameMode \in {"single-player", "solo"}
     THEN IF allHumanPlayersReady THEN go(w1) ELSE w1
     ELSE IF allPlayersReady
          THEN go(Emit(w1, "playerReadyStatus"))
          ELSE Emit(w1, "playerReadyStatus")

\* socket.on('startGame'): refused unless the sender is the host of a room
\* of two to four members; otherwise the room leaves the public listing and
\* gets a new game state, a new session record and an empty ready set.  The
\* game options of the room are those the game state carries.
onStartGame(w, s, t, cells) ==
  LET r == w.room
      player == getPlayerBySocket(r, s)
      listed == IF r.isPublic
                THEN broadcastPublicRooms([w EXCEPT !.room.isPublic = FALSE,
                                                    !.publicRooms = FALSE])
                ELSE w
      built == {[g EXCEPT !.timeLimit = w.gs.timeLimit,
                          !.players = [p \in DOMAIN r.players |->
                             [g.players[p] EXCEPT !.isHost = r.players[p].isHost]]] :
                  g \in createGameState(DOMAIN r.players, player, r.enablePowerups,
                                        w.gs.wallMode, 0, w.gs.strictMode, t, cells)}
  IN IF ~w.rooms THEN {Emit(w, "error")}
     ELSE IF player = NoPlayer THEN {Emit(w, "error")}
     ELSE IF ~r.players[player].isHost THEN {Emit(w, "error")}
     ELSE IF Cardinality(DOMAIN r.players) < 2 THEN {Emit(w, "error")}
     ELSE IF Cardinality(DOMAIN r.players) > 4 THEN {Emit(w, "error")}
     ELSE {Emit(Emit([listed EXCEPT !.gs = g,
                                    !.session = NoSession,
                                    !.room.isPaused = FALSE,
                                    !.room.readyPlayers = {},
                                    !.room.countdownActive = FALSE,
                                    !.room.countdownValue = 0],
                     "gameStarted"), "playerReadyStatus") : g \in built}

startCountdownForRoom(w) ==
  IF w.room.countdownActive \/ w.room.countdownInterval THEN w
  ELSE Emit([w EXCEPT !.room.countdownActive = TRUE,
                      !.room.countdownValue = COUNTDOWN_START,
                      !.room.countdownInterval = TRUE],
            "gameCountdown")

\* the callback of the start-countdown interval
countdownStep(w, t) ==
  LET countdown == w.room.countdownValue - 1
      done == [w EXCEPT !.room.countdownActive = FALSE,
                        !.room.countdownValue = 0,
                        !.room.countdownInterval = FALSE,
                        !.room.isGameActive = TRUE]
      looped == startGameLoop(Emit(done, "gameCountdown"), t)
  IN IF countdown > 0
     THEN Emit([w EXCEPT !.room.countdownValue = countdown], "gameCountdown")
     ELSE [looped EXCEPT !.gs.timer = 0]

startResumeCountdownForRoom(w) ==
  IF w.room.resumeCountdownActive \/ w.room.resumeCountdownInterval THEN w
  ELSE Emit([w EXCEPT !.room.resumeCountdownActive = TRUE,
                      !.room.resumeCountdownValue = COUNTDOWN_START,
                      !.room.resumeCountdownInterval = TRUE],
            "resumeCountdown")

\* gameLogic.resumeGame(room, io): the world it leaves and what it returns
resumeGame(w, t) ==
  LET gs == w.gs
      pauseDuration == IF gs.pauseStartTime # 0 THEN t - gs.pauseStartTime ELSE 0
      shift == IF gs.pauseStartedAt # 0 THEN t - gs.pauseStartedAt ELSE 0
      gs1 == [gs EXCEPT !.totalPauseDuration = @ + pauseDuration,
                        !.totalPauseTime = @ + pauseDuration,
                        !.pauseStartTime = 0,
                        !.lastPlayerInputTime = [p \in DOMAIN @ |-> @[p] + shift],
                        !.pauseStartedAt = 0,
                        !.isPaused = FALSE]
      w1 == [w EXCEPT !.gs = gs1, !.room.isPaused = FALSE]
  IN IF ~gs.isPaused THEN [w |-> w, ok |-> FALSE]
     ELSE IF w.room.maxPauseTime # 0 /\ gs1.totalPauseTime >= w.room.maxPauseTime
     THEN [w |-> [w1 EXCEPT !.gs = checkWinCondition(gs1, FALSE, t)], ok |-> FALSE]
     ELSE [w |-> Emit(w1, "gameResumed"), ok |-> TRUE]

\* the callback of the resume-countdown interval
resumeCountdownStep(w, t) ==
  LET countdown == w.room.resumeCountdownValue - 1
      done == Emit([w EXCEPT !.room.resumeCountdownActive = FALSE,
                             !.room.resumeCountdownValue = 0,
                             !.room.resumeCountdownInterval = FALSE],
                   "resumeCountdown")
      resumed == resumeGame(done, t)
  IN IF countdown > 0
     THEN Emit([w EXCEPT !.room.resumeCountdownValue = countdown], "resumeCountdown")
     ELSE IF ~resumed.ok THEN Emit(resumed.w, "resumeError")
     ELSE Emit(Emit([resumed.w EXCEPT !.room.isPaused = FALSE], "gameResumed"),
               "gameStateUpdate")


(***************************************************************************)
(* Input, pause and resume                                                 *)
(***************************************************************************)
processPlayerInput(gs, p, direction, t) ==
  LET player == gs.players[p]
      seen == [gs EXCEPT !.lastPlayerInputTime[p] = t,
                         !.inactivityWarnings = @ \ {p}]
      currentDirection == player.nextDirection
  IN IF p \notin GsIds(gs) THEN gs
     ELSE IF ~player.isAlive THEN gs
     ELSE IF gs.lastInputTick[p] = gs.tickCount THEN seen
     ELSE IF opposites(direction) = currentDirection THEN seen
     ELSE [seen EXCEPT !.players[p].nextDirection = direction,
                       !.lastInputTick[p] = gs.tickCount]

\* variant of the playerInput handler that does not look at the countdown
onPlayerInputDuringCountdown(w, s, direction, t) ==
  LET r == w.room
      playerId == getPlayerBySocket(r, s)
  IN IF ~w.rooms \/ ~r.isGameActive \/ r.isPaused
     THEN Emit(w, "inputRejected")
     ELSE IF playerId = NoPlayer THEN Emit(w, "inputRejected")
     ELSE IF r.players[playerId].type # "human" THEN Emit(w, "inputRejected")
     ELSE IF playerId \notin GsIds(w.gs) THEN Emit(w, "inputRejected")
     ELSE IF ~w.gs.players[playerId].isAlive THEN Emit(w, "inputRejected")
     ELSE [w EXCEPT !.gs = processPlayerInput(w.gs, playerId, direction, t)]

\* socket.on('playerInput')
onPlayerInput(w, s, direction, t) ==
  LET r == w.room
      playerId == getPlayerBySocket(r, s)
  IN IF \/ ~w.rooms
        \/ ~r.isGameActive
        \/ r.isPaused
        \/ (r.countdownActive /\ r.countdownValue > 0)
     THEN Emit(w, "inputRejected")
     ELSE IF playerId = NoPlayer THEN Emit(w, "inputRejected")
     ELSE IF r.players[playerId].type # "human" THEN Emit(w, "inputRejected")
     ELSE IF playerId \notin GsIds(w.gs) THEN Emit(w, "inputRejected")
     ELSE IF ~w.gs.players[playerId].isAlive THEN Emit(w, "inputRejected")
     ELSE [w EXCEPT !.gs = processPlayerInput(w.gs, playerId, direction, t)]

\* gameLogic.pauseGame(room)
pauseGame(w, t) ==
  IF ~w.gs.isPaused
  THEN [w EXCEPT !.gs.isPaused = TRUE,
                 !.gs.pauseStartTime = t,
                 !.gs.pauseStartedAt = t,
                 !.room.isPaused = TRUE]
  ELSE w

\* socket.on('pauseGame')
onPauseGame(w, s, t) ==
  LET r == w.room
      playerId == getPlayerBySocket(r, s)
      isSoloMode == r.gameMode \in {"solo", "single-player"}
  IN IF ~w.rooms \/ (~r.countdownActive /\ ~r.isGameActive) THEN Emit(w, "pauseError")
     ELSE IF playerId = NoPlayer THEN Emit(w, "pauseError")
     ELSE IF r.players[playerId].type # "human" THEN Emit(w, "pauseError")
     ELSE IF ~isSoloMode /\ w.gs.totalPauseTime >= MAX_PAUSE_TIME THEN Emit(w, "pauseError")
     ELSE Emit(Emit(pauseGame([w EXCEPT !.room.isPaused = TRUE], t), "gamePaused"),
               "gameStateUpdate")

\* socket.on('resumeGame')
onResumeGame(w, s) ==
  LET r == w.room
      playerId == getPlayerBySocket(r, s)
  IN IF ~w.rooms \/ (~r.countdownActive /\ ~r.isGameActive) THEN Emit(w, "resumeError")
     ELSE IF playerId = NoPlayer THEN Emit(w, "resumeError")
     ELSE IF r.players[playerId].type # "human" THEN Emit(w, "resumeError")
     ELSE IF ~r.isPaused /\ ~w.gs.isPaused THEN Emit(w, "resumeError")
     ELSE startResumeCountdownForRoom(w)

(***************************************************************************)
(* Leaving: quitGame, disconnect and their timeouts                        *)
(***************************************************************************)
\* a leaving player is marked dead in the game state
MarkDead(w, p) ==
  IF p \in GsIds(w.gs)
  THEN [w EXCEPT !.gs.players[p] =
          IF w.room.enablePowerups
          THEN cancelPlayerPowerUps([@ EXCEPT !.isAlive = FALSE])
          ELSE [@ EXCEPT !.isAlive = FALSE]]
  ELSE w

\* the game is ended by a handler: win check, ticker stopped, gameEnded
EndNow(w, t) ==
  Emit(stopGameLoop([w EXCEPT !.gs = checkWinCondition(w.gs, FALSE, t),
                              !.room.isGameActive = FALSE]),
       "gameEnded")

\* the first member of room.players
FirstPlayer(players) ==
  CHOOSE p \in DOMAIN players : \A q \in DOMAIN players : IndexOf(p) <= IndexOf(q)

\* socket.on('quitGame')
onQuitGame(w0, s, leaveType, t) ==
  LET r == w0.room
      p == getPlayerBySocket(r, s)
      player == r.players[p]
      w == IF w0.rooms /\ p # NoPlayer /\ r.gameMode = "multi-player"
           THEN HostLeaves(w0, p) ELSE w0
      closed(x) == stopGameLoop([x EXCEPT !.room.isGameActive = FALSE, !.rooms = FALSE])
      dead == IF r.isGameActive THEN Emit(MarkDead(w, p), "gameStateUpdate")
              ELSE MarkDead(w, p)
      left == [dead EXCEPT !.room.players = WithoutPlayer(r.players, p),
                           !.room.playerTokens = WithoutToken(@, player),
                           !.room.socketToPlayerId[s] = NoPlayer]
      remaining == DOMAIN left.room.players
      notified == Emit(left, "playerQuit")
  IN IF ~w.rooms \/ p = NoPlayer THEN {w}
     ELSE IF player.type # "human" THEN {w}
     ELSE IF r.gameMode \in {"solo", "single-player"}
     THEN {[markSessionAsEnded(EndNow(MarkDead(w, p), t), "player_quit", t)
              EXCEPT !.rooms = FALSE]}
     ELSE IF player.isHost /\ leaveType = "withParty"
     THEN {Emit(closed(w), "gameQuit")}
     ELSE IF Cardinality(remaining) = 1 /\ r.isGameActive
     THEN {ArmCleanup(EndNow(left, t))}
     ELSE IF remaining = {}
     THEN {Emit(markSessionAsEnded(closed(left),
                                   IF player.isHost THEN "host_quit_no_players"
                                   ELSE "all_players_quit", t),
                "gameQuit")}
     ELSE IF player.isHost /\ r.isGameActive
     THEN {Emit(Emit([notified EXCEPT !.room.players[h].isHost = TRUE,
                                      !.gs = updateGameStateHost(@, h)],
                     "hostChanged"), "gameStateUpdate") : h \in remaining}
     ELSE IF player.isHost
     THEN {Emit([notified EXCEPT !.room.players[FirstPlayer(left.room.players)].isHost = TRUE],
                "hostChanged")}
     ELSE {notified}

\* socket.on('togglePublicRoom'): nextState is the isPublic flag of the
\* message, or the negation of room.isPublic when the message has none
onTogglePublicRoom(w, s, nextState) ==
  LET r == w.room
      p == getPlayerBySocket(r, s)
      refused == Emit(w, "publicRoomStatus")
  IN IF ~w.rooms THEN refused
     ELSE IF p = NoPlayer THEN refused
     ELSE IF ~r.players[p].isHost THEN refused
     ELSE IF r.gameMode # "multi-player" THEN refused
     ELSE IF nextState /\ (r.isGameActive \/ r.countdownActive) THEN refused
     ELSE IF nextState /\ Cardinality(DOMAIN r.players) >= 4 THEN refused
     ELSE broadcastPublicRooms(Emit([w EXCEPT !.room.isPublic = nextState,
                                              !.publicRooms = nextState],
                                    "publicRoomStatus"))

\* socket.on('disconnect')
onDisconnect(w0, s, t) ==
  LET r == w0.room
      p == getPlayerBySocket(r, s)
      player == r.players[p]
      w == IF w0.rooms /\ p # NoPlayer THEN HostLeaves(w0, p) ELSE w0
      gameHasStarted == w.gs.startTime > 0
      marked == IF gameHasStarted
                THEN markSessionAsEnded(w, "page_refresh_disconnect", t) ELSE w
      unmapped == [marked EXCEPT !.room.socketToPlayerId[s] = NoPlayer,
                                 !.room.playerTokens =
                                    IF gameHasStarted \/ r.gameMode # "multi-player"
                                    THEN WithoutToken(@, player) ELSE @]
      gone == [unmapped EXCEPT !.room.players[p].disconnected = TRUE,
                               !.room.players[p].socketId = NoSocket]
      dead == MarkDead(gone, p)
      connected == {q \in DOMAIN r.players \ {p} : r.players[q].socketId # NoSocket}
      abandoned(x) ==
        IF connected = {}
        THEN [stopGameLoop([x EXCEPT !.room.isGameActive = FALSE])
                EXCEPT !.roomCleanupTimeout = TRUE]
        ELSE x
      others ==
        IF connected # {}
        THEN IF player.isHost
             THEN {Emit(Emit(Emit([dead EXCEPT !.room.players[h].isHost = TRUE,
                                               !.gs = updateGameStateHost(@, h)],
                                  "playerLeft"), "hostChanged"), "gameStateUpdate") :
                     h \in connected}
             ELSE {Emit(dead, "playerLeft")}
        ELSE {dead}
  IN IF ~w.rooms \/ p = NoPlayer THEN {w}
     ELSE IF r.isGameActive
     THEN IF r.gameMode \in {"solo", "single-player"}
          THEN {stopGameLoop([gone EXCEPT !.room.isGameActive = FALSE,
                                          !.room.isPaused = TRUE])}
          ELSE IF Cardinality(connected) = 1
          THEN {ArmCleanup(EndNow(dead, t))}
          ELSE {abandoned(x) : x \in others}
     ELSE IF r.gameMode = "multi-player"
     THEN {[gone EXCEPT !.disconnectTimeouts = @ \cup {p}]}
     ELSE {gone}

\* the disconnect timeout of player p fires
disconnectTimeout(w0, p) ==
  LET w == [w0 EXCEPT !.disconnectTimeouts = @ \ {p}]
      r == w.room
      wasHost == r.players[p].isHost
      rest == WithoutPlayer(r.players, p)
      dropped == [w EXCEPT !.room.players = rest,
                           !.room.playerTokens = IF w.gs.startTime > 0
                                                  THEN WithoutToken(@, r.players[p])
                                                  ELSE @,
                           !.room.readyPlayers = @ \ {p}]
      first == FirstPlayer(rest)
      hosted == IF wasHost /\ DOMAIN rest # {}
                THEN IF r.isGameActive
                     THEN Emit(Emit([dropped EXCEPT !.room.players[first].isHost = TRUE,
                                                    !.gs = updateGameStateHost(@, first)],
                                    "hostChanged"), "gameStateUpdate")
                     ELSE Emit([dropped EXCEPT !.room.players[first].isHost = TRUE],
                               "hostChanged")
                ELSE dropped
      told == Emit(Emit(hosted, "playerLeft"), "playerReadyStatus")
  IN IF ~w.rooms THEN w
     ELSE IF p \notin DOMAIN r.players THEN w
     ELSE IF r.players[p].socketId # NoSocket \/ ~r.players[p].disconnected THEN w
     ELSE IF DOMAIN rest = {} THEN [told EXCEPT !.roomCleanupTimeout = TRUE]
     ELSE told

\* the timeout kept in roomCleanupTimeouts fires
roomCleanup(w0, t) ==
  LET w == [w0 EXCEPT !.roomCleanupTimeout = FALSE]
  IN IF w.rooms /\ \A q \in DOMAIN w.room.players : w.room.players[q].socketId = NoSocket
     THEN [markSessionAsEnded(w, "all_players_disconnected", t) EXCEPT !.rooms = FALSE]
     ELSE w

\* the 10 s timeout armed at the end of a multi-player game fires; the one
\* armed by the game loop marks no session, whose endTime is set by then
gameEndCleanup(w0, t) ==
  LET w == [w0 EXCEPT !.cleanupTimeouts = @ - 1]
  IN IF w.rooms /\ ~w.room.isGameActive
     THEN [markSessionAsEnded(w, "game_ended", t) EXCEPT !.rooms = FALSE]
     ELSE w

(***************************************************************************)
(* requestGameState                                                        *)
(***************************************************************************)
\* socket.on('joinRoom') for a room in the room table, with a non-empty
\* player name: token is data.playerToken (a fresh token when the message
\* has none), newId the id createPlayerId() would hand out.  The result
\* holds the state left and the playerId of the joinedRoom answer.
onJoinRoom(w, s, token, name, newId) ==
  LET r == w.room
      existingPlayerId == r.playerTokens[token]
      gameHasStarted == w.gs.startTime > 0
      refused == [w |-> Emit(w, "joinError"), playerId |-> NoPlayer]
      rebound ==
        LET r1 == [r EXCEPT !.players[existingPlayerId].socketId = s,
                            !.players[existingPlayerId].disconnected = FALSE]
            w1 == [w EXCEPT !.room = mapSocketToPlayer(r1, s, existingPlayerId),
                            !.disconnectTimeouts = @ \ {existingPlayerId}]
        IN [w |-> Emit(Emit(w1, "joinedRoom"), "gameStarted"),
            playerId |-> existingPlayerId]
      added ==
        LET member == [type |-> "human", name |-> name, token |-> token,
                       socketId |-> s, isHost |-> (DOMAIN r.players = {}),
                       disconnected |-> FALSE]
            players == [q \in DOMAIN r.players \cup {newId} |->
                          IF q = newId THEN member ELSE r.players[q]]
            r1 == [r EXCEPT !.players = players, !.playerTokens[token] = newId]
        IN [w |-> Emit(Emit([w EXCEPT !.room = mapSocketToPlayer(r1, s, newId)],
                            "joinedRoom"), "playerJoined"),
            playerId |-> newId]
  IN IF /\ existingPlayerId \in DOMAIN r.players
        /\ ~gameHasStarted
        /\ r.gameMode = "multi-player"
     THEN rebound
     ELSE IF r.gameMode = "single-player" THEN refused
     ELSE IF r.countdownActive \/ gameHasStarted THEN refused
     ELSE IF Cardinality(DOMAIN r.players) >= MAX_PLAYERS THEN refused
     ELSE IF \E q \in DOMAIN r.players : r.players[q].name = name THEN refused
     ELSE added

\* socket.on('requestGameState'): token is the playerToken of the message,
\* named by the player it was issued to (NoPlayer if absent)
onRequestGameState(w, s, token, t) ==
  LET r == w.room
      started == w.gs.startTime > 0
      bySocket == getPlayerIdFromSocket(r, s)
      multiId == IF bySocket = NoPlayer /\ token \in Tokens /\ ~started
                 THEN IF r.playerTokens[token] # NoPlayer
                      THEN r.playerTokens[token] ELSE bySocket
                 ELSE bySocket
      human == CHOOSE h \in RoomHumans(r) : \A q \in RoomHumans(r) : IndexOf(h) <= IndexOf(q)
      soloId == IF bySocket \in DOMAIN r.players THEN bySocket
                ELSE IF RoomHumans(r) # {} THEN human
                ELSE NoPlayer
      bind(x, p) ==
        [x EXCEPT !.room = mapSocketToPlayer(
                    [r EXCEPT !.players[p].disconnected = FALSE,
                              !.players[p].socketId = s], s, p)]
      counted(x) == IF r.countdownActive THEN Emit(x, "gameCountdown") ELSE x
      restart(x) ==
        startGameLoop([x EXCEPT !.room.isGameActive = TRUE, !.room.isPaused = FALSE], t)
      multi ==
        LET w1 == counted([bind(w, multiId) EXCEPT !.disconnectTimeouts = @ \ {multiId}])
            w2 == IF ~r.isGameActive /\ ~r.countdownActive /\ started
                  THEN IF w.loops = 0 THEN restart(w1)
                       ELSE [w1 EXCEPT !.room.isGameActive = TRUE, !.room.isPaused = FALSE]
                  ELSE w1
        IN Emit(w2, "gameStarted")
      solo ==
        LET revived == IF r.players[soloId].disconnected /\ soloId \in GsIds(w.gs)
                       THEN [w EXCEPT !.gs.players[soloId].isAlive = TRUE]
                       ELSE w
            w1 == counted(bind(revived, soloId))
            w2 == IF (~r.isGameActive \/ w.loops = 0) /\ ~r.countdownActive /\ started
                  THEN restart(w1) ELSE w1
        IN Emit(w2, "gameStarted")
  IN IF ~w.rooms THEN Emit(w, "gameStateError")
     ELSE IF r.gameMode = "multi-player"
     THEN IF multiId \notin DOMAIN r.players THEN Emit(w, "gameStateError")
          ELSE IF r.players[multiId].disconnected /\ started THEN Emit(w, "gameStateError")
          ELSE multi
     ELSE IF soloId = NoPlayer THEN Emit(w, "gameStateError")
          ELSE solo

(***************************************************************************)
(* Actions                                                                 *)
(***************************************************************************)
Model == <<now, rngCells, nAdvance, idleAtPause, createdIds, lastJoin,
           gameSessions, sessionIds>>

\* the idle time of every player, as the inactivity watchdog computes it
Idle(gs, t) == [p \in Ids |-> IF p \in GsIds(gs) THEN t - gs.lastPlayerInputTime[p] ELSE -1]

\* every timeout and countdown of the server is shorter than the smallest
\* step of the clock: none of them is pending when the clock moves
NoShortTimer ==
  /\ readyTimeouts = 0
  /\ cleanupTimeouts = 0
  /\ disconnectTimeouts = {}
  /\ ~roomCleanupTimeout
  /\ ~room.countdownInterval
  /\ ~room.resumeCountdownInterval

\* time passes
Advance(d) ==
  /\ nAdvance < MaxAdvance
  /\ NoShortTimer
  /\ now' = now + d
  /\ nAdvance' = nAdvance + 1
  /\ emitted' = {}
  /\ UNCHANGED <<rooms, room, gameState, gameLoops, readyTimeouts, cleanupTimeouts,
                 disconnectTimeouts, roomCleanupTimeout, rngCells, gameEndedCount,
                 idleAtPause, createdIds, lastJoin, session, publicRooms,
                 gameSessions, sessionIds>>

\* a joinRoom message for the room; it needs an id createPlayerId() has not
\* handed out yet
JoinRoom(s, token, name) ==
  /\ rooms
  /\ \E newId \in Joiners \ createdIds :
       LET res == onJoinRoom(World, s, token, name, newId)
       IN /\ Commit(res.w)
          /\ createdIds' = IF res.playerId = newId THEN createdIds \cup {newId}
                           ELSE createdIds
          /\ lastJoin' = [token |-> token, playerId |-> res.playerId]
  /\ UNCHANGED <<now, rngCells, nAdvance, idleAtPause, gameSessions, sessionIds>>

\* startGame from connection s, while no start-countdown interval is set
\* (the handler drops the reference to the interval without clearing it)
StartGame(s) ==
  /\ ~room.countdownInterval
  /\ \E w \in onStartGame(World, s, now, rngCells) : Commit(w)
  /\ UNCHANGED Model

PlayerReady(s, claimed) ==
  /\ Commit(onPlayerReady(World, s, claimed))
  /\ UNCHANGED Model

\* the 300 ms timeout armed by playerReady fires
ReadyTimeout ==
  /\ readyTimeouts > 0
  /\ Commit(startCountdownForRoom([World EXCEPT !.readyTimeouts = @ - 1]))
  /\ UNCHANGED Model

\* the start-countdown interval fires
CountdownTick ==
  /\ room.countdownInterval
  /\ Commit(countdownStep(World, now))
  /\ UNCHANGED Model

\* the start-countdown interval fires one second after the previous step
\* of the countdown, in a game whose simulation has not begun
CountdownSecond ==
  /\ room.countdownInterval
  /\ gameState.startTime = 0
  /\ now' = now + 1000
  /\ Commit(countdownStep(World, now + 1000))
  /\ UNCHANGED <<rngCells, nAdvance, idleAtPause, createdIds, lastJoin, gameSessions,
                 sessionIds>>

\* the resume-countdown interval fires
ResumeCountdownTick ==
  /\ room.resumeCountdownInterval
  /\ Commit(resumeCountdownStep(World, now))
  /\ idleAtPause' = IF gameState.isPaused /\ ~gameState'.isPaused
                    THEN [p \in Ids |-> -1] ELSE idleAtPause
  /\ UNCHANGED <<now, rngCells, nAdvance, createdIds, lastJoin, gameSessions,
                 sessionIds>>

\* the ticker fires; at most maxTicks iterations advance the simulation, and
\* no iteration is sampled once a score has reached MaxScore
GameLoopTick(maxTicks, decision) ==
  /\ gameLoops # 0
  /\ gameState.tickCount < maxTicks
  /\ \A p \in GsIds(gameState) : gameState.players[p].score < MaxScore
  /\ \E w \in gameLoopIteration(World, now, rngCells, decision) : Commit(w)
  /\ UNCHANGED Model

PlayerInput(s, direction) ==
  /\ Commit(onPlayerInput(World, s, direction, now))
  /\ UNCHANGED Model

PauseGame(s) ==
  /\ Commit(onPauseGame(World, s, now))
  /\ idleAtPause' = IF ~gameState.isPaused /\ gameState'.isPaused
                    THEN Idle(gameState, now) ELSE idleAtPause
  /\ UNCHANGED <<now, rngCells, nAdvance, createdIds, lastJoin, gameSessions,
                 sessionIds>>

ResumeGame(s) ==
  /\ Commit(onResumeGame(World, s))
  /\ UNCHANGED Model


TogglePublicRoom(s, nextState) ==
  /\ Commit(onTogglePublicRoom(World, s, nextState))
  /\ UNCHANGED Model

QuitGame(s, leaveType) ==
  /\ \E w \in onQuitGame(World, s, leaveType, now) : Commit(w)
  /\ UNCHANGED Model

Disconnect(s) ==
  /\ \E w \in onDisconnect(World, s, now) : Commit(w)
  /\ UNCHANGED Model

DisconnectTimeout(p) ==
  /\ p \in disconnectTimeouts
  /\ Commit(disconnectTimeout(World, p))
  /\ UNCHANGED Model

RoomCleanupTimeout ==
  /\ roomCleanupTimeout
  /\ Commit(roomCleanup(World, now))
  /\ UNCHANGED Model

\* socket.on('joinRoom') for a room code that is not in the room table: the
\* handler first puts a new room under the code (no member, no game state,
\* not active), then goes on as for any other room
CreateRoom(s, token, name) ==
  /\ ~rooms
  /\ \E newId \in Joiners \ createdIds :
       LET lobby == [NewRoom("multi-player", FALSE) EXCEPT
                       !.players = [p \in {} |-> NoPlayer],
                       !.playerTokens = [k \in Tokens |-> NoPlayer],
                       !.socketToPlayerId = [c \in Sockets |-> NoPlayer]]
           res == onJoinRoom([World EXCEPT !.rooms = TRUE, !.room = lobby,
                                           !.gs = NoGameState],
                             s, token, name, newId)
       IN /\ Commit(res.w)
          /\ createdIds' = createdIds \cup {newId}
          /\ lastJoin' = [token |-> token, playerId |-> res.playerId]
  /\ UNCHANGED <<now, rngCells, nAdvance, idleAtPause, gameSessions, sessionIds>>

\* startGame and startSinglePlayer, the session part: the room takes the
\* id createSessionId() returns and gameSessions.set puts a new record under it
StartSession(c) ==
  LET sessionId == createSessionId(now)
  IN /\ sessionIds' = [sessionIds EXCEPT ![c] = sessionId]
     /\ gameSessions' = [id \in DOMAIN gameSessions \cup {sessionId} |->
                           IF id = sessionId
                           THEN [roomCode |-> c, startTime |-> now, endTime |-> 0]
                           ELSE gameSessions[id]]
     /\ UNCHANGED <<rooms, room, gameState, gameLoops, readyTimeouts, cleanupTimeouts,
                    disconnectTimeouts, roomCleanupTimeout, now, rngCells, nAdvance,
                    emitted, gameEndedCount, idleAtPause, createdIds, lastJoin,
                    session, publicRooms>>

\* the end of the game of room c in the game loop: the record under
\* room.sessionId gets its endTime
EndSession(c) ==
  /\ sessionIds[c] \in DOMAIN gameSessions
  /\ gameSessions' = [gameSessions EXCEPT ![sessionIds[c]].endTime = now]
  /\ UNCHANGED <<rooms, room, gameState, gameLoops, readyTimeouts, cleanupTimeouts,
                 disconnectTimeouts, roomCleanupTimeout, now, rngCells, nAdvance,
                 emitted, gameEndedCount, idleAtPause, createdIds, lastJoin,
                 session, publicRooms, sessionIds>>

\* markSessionAsEnded(c, reason) when room c is deleted: the first record of
\* the table (in insertion order, which is the order of the ids) with this
\* room code and no endTime gets its endTime
CloseSession(c) ==
  LET open == {id \in DOMAIN gameSessions :
                 gameSessions[id].roomCode = c /\ gameSessions[id].endTime = 0}
  IN /\ open # {}
     /\ gameSessions' = [gameSessions EXCEPT
                           ![CHOOSE id \in open : \A o \in open : id <= o].endTime = now]
     /\ UNCHANGED <<rooms, room, gameState, gameLoops, readyTimeouts, cleanupTimeouts,
                    disconnectTimeouts, roomCleanupTimeout, now, rngCells, nAdvance,
                    emitted, gameEndedCount, idleAtPause, createdIds, lastJoin,
                    session, publicRooms, sessionIds>>

GameEndCleanup ==
  /\ cleanupTimeouts > 0
  /\ Commit(gameEndCleanup(World, now))
  /\ UNCHANGED Model

RequestGameState(s, token) ==
  /\ Commit(onRequestGameState(World, s, token, now))
  /\ UNCHANGED Model

(***************************************************************************)
(* Specifications                                                          *)
(***************************************************************************)
\* The life cycle of a solo or single-player session, without pauses
Init ==
  InitWith({"solo", "single-player"}, {FALSE}, {FALSE}, {FALSE}, {0}, {FarCell})

Next ==
  \/ \E d \in TimeSteps : Advance(d)
  \/ PlayerReady("s1", NoPlayer)
  \/ ReadyTimeout
  \/ CountdownTick
  \/ \E decision \in {"none", "up"} : GameLoopTick(MaxTick, decision)
  \/ QuitGame("s1", "alone")
  \/ Disconnect("s1")
  \/ \E s \in {"s1", "s3"} : RequestGameState(s, NoPlayer)

Spec == Init /\ [][Next]_vars

\* Pausing and resuming, in the three game modes; the clock is sampled at
\* the last step of the start-countdown
InitPause ==
  InitWith(Modes, {FALSE}, {FALSE}, {FALSE}, {0}, {FarCell})

NextPause ==
  \/ \E d \in TimeSteps : Advance(d)
  \/ \E s \in {"s1", "s2"} : PlayerReady(s, NoPlayer)
  \/ ReadyTimeout
  \/ CountdownTick
  \/ GameLoopTick(MaxTick, "none")
  \/ \E s \in {"s1", "s2"} : PauseGame(s)
  \/ \E s \in {"s1", "s2"} : ResumeGame(s)
  \/ ResumeCountdownTick
  \/ room.countdownValue = 1 /\ CountdownSecond

SpecPause == InitPause /\ [][NextPause]_vars

\* Direction inputs in a multi-player game with power-ups
InitInput ==
  InitWith({"multi-player"}, {TRUE}, {FALSE}, {FALSE}, {0}, {Pos(7, 5), FarCell})

NextInput ==
  \/ \E d \in TimeSteps : Advance(d)
  \/ \E s \in {"s1", "s2"} : PlayerReady(s, NoPlayer)
  \/ ReadyTimeout
  \/ CountdownTick
  \/ GameLoopTick(MaxInputTick, "none")
  \/ \E d \in Directions : PlayerInput("s2", d)

SpecInput == InitInput /\ [][NextInput]_vars

\* A game with a time limit of three minutes
InitLimit ==
  InitWith({"solo", "multi-player"}, {FALSE}, {FALSE}, {FALSE}, {3}, {FarCell})

NextLimit ==
  \/ \E d \in TimeSteps : Advance(d)
  \/ \E s \in {"s1", "s2"} : PlayerReady(s, NoPlayer)
  \/ ReadyTimeout
  \/ CountdownTick
  \/ GameLoopTick(MaxTick, "none")

SpecLimit == InitLimit /\ [][NextLimit]_vars

\* The ready phase of a multi-player room
InitReady ==
  InitWith({"multi-player"}, {FALSE}, {FALSE}, {FALSE}, {0}, {FarCell})

NextReady ==
  \/ \E s \in {"s1", "s2"} : PlayerReady(s, NoPlayer)
  \/ ReadyTimeout
  \/ CountdownTick
  \/ \E s \in {"s1", "s2"} : QuitGame(s, "alone")
  \/ \E s \in {"s1", "s2"} : Disconnect(s)
  \/ \E p \in Humans : DisconnectTimeout(p)
  \/ \E p \in Humans : RequestGameState("s3", p)
  \/ RoomCleanupTimeout
  \/ GameEndCleanup
  \/ \E s \in {"s1", "s2"}, nextState \in BOOLEAN : TogglePublicRoom(s, nextState)
  \/ JoinRoom("s3", "t3", "new")

SpecReady == InitReady /\ [][NextReady]_vars

\* A solo game with food in front of the snake
InitLevel ==
  \/ InitWith({"solo"}, {FALSE}, {FALSE}, {FALSE}, {0}, RowCells \cup {FarCell})
  \/ InitWith({"solo"}, {FALSE}, {FALSE}, {FALSE}, {0}, RowCells)

NextLevel ==
  \/ PlayerReady("s1", NoPlayer)
  \/ ReadyTimeout
  \/ CountdownTick
  \/ GameLoopTick(MaxMoveTick, "none")
  \/ PlayerInput("s1", "up")

SpecLevel == InitLevel /\ [][NextLevel]_vars

\* A solo game whose player pauses, drops the connection and comes back
InitReconnect ==
  InitWith({"solo"}, {FALSE}, {FALSE}, {FALSE}, {0}, {FarCell})

NextReconnect ==
  \/ \E d \in TimeSteps : Advance(d)
  \/ PlayerReady("s1", NoPlayer)
  \/ ReadyTimeout
  \/ CountdownTick
  \/ GameLoopTick(MaxTick, "none")
  \/ PauseGame("s1")
  \/ \E s \in {"s1", "s3"} : ResumeGame(s)
  \/ ResumeCountdownTick
  \/ PlayerInput("s3", "up")
  \/ Disconnect("s1")
  \/ RequestGameState("s3", NoPlayer)

SpecReconnect == InitReconnect /\ [][NextReconnect]_vars

\* The ready phase of a multi-player room with players joining
InitJoin ==
  InitWith({"multi-player"}, {FALSE}, {FALSE}, {FALSE}, {0}, {FarCell})

NextJoin ==
  \/ \E token \in {"p1", "t3"}, name \in {"p1", "new"} : JoinRoom("s3", token, name)
  \/ RequestGameState("s3", "p1")
  \/ \E s \in Sockets : PlayerReady(s, NoPlayer)
  \/ ReadyTimeout
  \/ CountdownTick
  \/ \E s \in Sockets : Disconnect(s)
  \/ \E p \in Humans \cup Joiners : DisconnectTimeout(p)
  \/ RoomCleanupTimeout

SpecJoin == InitJoin /\ [][NextJoin]_vars

\* The start of a game: ready phase, start-countdown (also one replayed
\* over a running game), first ticks and inputs
InitStart ==
  InitWith(Modes, {FALSE}, {FALSE}, {FALSE}, {0}, {FarCell})

NextStart ==
  \/ \E s \in {"s1", "s2"} : PlayerReady(s, NoPlayer)
  \/ ReadyTimeout
  \/ CountdownTick
  \/ \E decision \in {"none", "up"} : GameLoopTick(MaxTick, decision)
  \/ \E s \in {"s1", "s2"}, d \in {"up", "down"} : PlayerInput(s, d)
  \/ PauseGame("s1")

SpecStart == InitStart /\ [][NextStart]_vars

\* A solo game with power-ups: food and power-ups appear on the four cells
\* of a square next to the start position of the snake
InitShield ==
  InitWith({"solo"}, {TRUE}, {FALSE}, {FALSE}, {0},
           {Pos(6, 5), Pos(6, 4), Pos(7, 4), Pos(7, 5)})

\* the clock is advanced past the power-up spawn interval after the first
\* iteration, and the inputs are sampled from then on
NextShield ==
  \/ gameState.tickCount = 1 /\ Advance(50000)
  \/ gameLoops = 0 /\ PlayerReady("s1", NoPlayer)
  \/ ReadyTimeout
  \/ CountdownTick
  \/ GameLoopTick(MaxShieldTick, "none")
  \/ \E d \in {"up", "left", "down"} : nAdvance = 1 /\ PlayerInput("s1", d)

SpecShield == InitShield /\ [][NextShield]_vars

\* A multi-player game without walls in which the two snakes are steered
\* towards each other: the first turns up, the second down
InitMeet ==
  InitWith({"multi-player"}, {FALSE}, {FALSE}, {FALSE}, {0}, {FarCell})

NextMeet ==
  \/ \E s \in {"s1", "s2"} :
       gameLoops = 0 /\ ~room.countdownActive /\ PlayerReady(s, NoPlayer)
  \/ ReadyTimeout
  \/ CountdownTick
  \/ GameLoopTick(MaxMeetTick, "none")
  \/ gameLoops # 0 /\ PlayerInput("s1", "up")
  \/ gameLoops # 0 /\ PlayerInput("s2", "down")

SpecMeet == InitMeet /\ [][NextMeet]_vars

\* A multi-player game whose players stay idle for 50 s, for exactly the
\* inactivity threshold, or for longer
InitKick ==
  InitWith({"multi-player"}, {FALSE}, {FALSE}, {FALSE}, {0}, {FarCell})

NextKick ==
  \/ \E d \in TimeSteps \cup {INACTIVITY_THRESHOLD} : Advance(d)
  \/ \E s \in {"s1", "s2"} :
       gameLoops = 0 /\ ~room.countdownActive /\ PlayerReady(s, NoPlayer)
  \/ ReadyTimeout
  \/ CountdownTick
  \/ GameLoopTick(MaxTick, "none")
  \/ \E s \in {"s1", "s2"} : PlayerInput(s, "up")

SpecKick == InitKick /\ [][NextKick]_vars

\* A multi-player game that ends when a player quits, the room that the last
\* member leaves, and the room code taken again by a newcomer while the
\* clean-up timer of the ended game is pending
InitReuse ==
  InitWith({"multi-player"}, {FALSE}, {FALSE}, {FALSE}, {0}, {FarCell})

NextReuse ==
  \/ \E s \in {"s1", "s2"} :
       gameLoops = 0 /\ ~room.countdownActive /\ PlayerReady(s, NoPlayer)
  \/ gameState # NoGameState /\ ReadyTimeout
  \/ CountdownTick
  \/ \E s \in {"s1", "s2"} : gameState # NoGameState /\ QuitGame(s, "alone")
  \/ \E name \in {"p1", "new"} : CreateRoom("s3", "t3", name)
  \/ GameEndCleanup
  \/ \E s \in {"s1", "s2"} : StartGame(s)
  \/ gameState # NoGameState /\ GameLoopTick(MaxReuseTick, "none")

SpecReuse == InitReuse /\ [][NextReuse]_vars

\* The session table while the games of three rooms are started, ended and
\* closed and the clock moves
InitSessions ==
  InitWith({"multi-player"}, {FALSE}, {FALSE}, {FALSE}, {0}, {FarCell})

NextSessions ==
  \/ \E d \in TimeSteps \cup {INACTIVITY_THRESHOLD} : Advance(d)
  \/ \E c \in RoomCodes : StartSession(c)
  \/ \E c \in RoomCodes : EndSession(c)
  \/ \E c \in RoomCodes : CloseSession(c)

SpecSessions == InitSessions /\ [][NextSessions]_vars

\* A running game, some iterations after its start, in which the first
\* player (two segments, heading right from (5,5) or along the upper edge
\* from (5,0)) has the snake of the second player, human or NPC, next to it,
\* or about to leave the grid by its upper edge.  With power-ups, the first
\* player has been slowed by the second one for two iterations, and its head
\* has just come over a power-up.  Next to it, the
\* second player has its head, a body segment or its tail in front
\* of the first player, a head that aims at the same cell, or a head that
\* aims at a cell the first player is about to leave (the last one with a
\* long snake, whose score no survivor bonus makes up for)
CloseSnakes ==
  {[snake |-> <<Pos(6, 5), Pos(7, 5), Pos(8, 5)>>, direction |-> "left"],
   [snake |-> <<Pos(6, 5), Pos(6, 6), Pos(6, 7)>>, direction |-> "up"],
   [snake |-> <<Pos(6, 4), Pos(6, 5), Pos(6, 6)>>, direction |-> "up"],
   [snake |-> <<Pos(6, 3), Pos(6, 4), Pos(6, 5)>>, direction |-> "up"],
   [snake |-> <<Pos(7, 5), Pos(8, 5)>>, direction |-> "left"],
   [snake |-> <<Pos(5, 4), Pos(5, 3)>>, direction |-> "down"],
   [snake |-> <<Pos(4, 4), Pos(4, 3)>>, direction |-> "down"],
   [snake |-> <<Pos(6, 0), Pos(6, 1)>>, direction |-> "up"],
   [snake |-> <<Pos(5, 4), Pos(6, 4), Pos(7, 4), Pos(8, 4),
                Pos(9, 4), Pos(10, 4), Pos(11, 4), Pos(12, 4)>>, direction |-> "down"]}

InitClose ==
  /\ rooms = TRUE
  /\ now = ClockStart + 200 * (MaxCloseTick - 1)
  /\ nAdvance = 0
  /\ rngCells = {FarCell}
  /\ \E mode \in {"multi-player", "single-player"}, wall \in BOOLEAN, strict \in BOOLEAN,
        turn \in {"right", "up", "down"}, other \in CloseSnakes, row \in {5, 0},
        item \in {NoPlayer, "shield", "speed_boost", "shrink"} :
       LET pu == item # NoPlayer
           gs0 == createGameState0(Roster(mode), "p1", pu, wall, 0,
                                   IF mode = "multi-player" THEN strict ELSE FALSE,
                                   ClockStart)
           second == IF mode = "multi-player" THEN "p2" ELSE "n1"
           eaten == Len(other.snake)
           placed ==
             [gs0 EXCEPT
                !.players["p1"].snake = <<Pos(5, row), Pos(4, row)>>,
                !.players["p1"].direction = "right",
                !.players["p1"].nextDirection = turn,
                !.players["p1"].score = FOOD_SCORE,
                !.players["p1"].activePowerups =
                   IF pu THEN [@ EXCEPT !.slowed = now - 400 + POWERUP_DURATION] ELSE @,
                !.powerups =
                   IF pu THEN <<[x |-> 5, y |-> row, type |-> item, spawnTime |-> now - 200]>>
                   ELSE @,
                !.lastPowerUpSpawnTime = IF pu THEN now - 200 ELSE @,
                !.players[second].snake = other.snake,
                !.players[second].direction = other.direction,
                !.players[second].nextDirection = other.direction,
                !.players[second].score = FOOD_SCORE * (Len(other.snake) - 1),
                !.food = <<FarCell>>,
                !.startTime = ClockStart,
                !.totalFoodEaten = eaten,
                !.level = calculateLevel(eaten),
                !.lastPlayerInputTime = [p \in DOMAIN @ |-> now],
                !.tickCount = MaxCloseTick - 1]
       IN /\ room = [NewRoom(mode, pu) EXCEPT !.isGameActive = TRUE,
                                                 !.readyPlayers = Humans \cap Roster(mode)]
          /\ gameState = placed
          /\ gameLoops = calculateTickRate(placed.level, mode)
  /\ readyTimeouts = 0
  /\ cleanupTimeouts = 0
  /\ disconnectTimeouts = {}
  /\ roomCleanupTimeout = FALSE
  /\ emitted = {}
  /\ gameEndedCount = 0
  /\ idleAtPause = [p \in Ids |-> -1]
  /\ createdIds = {}
  /\ lastJoin = [token |-> NoPlayer, playerId |-> NoPlayer]
  /\ session = NoSession
  /\ publicRooms = FALSE
  /\ gameSessions = [id \in {} |-> NoSession]
  /\ sessionIds = [c \in RoomCodes |-> NoSessionId]

NextClose ==
  \/ GameLoopTick(MaxCloseTick, "none")
  \/ \E s \in {"s1", "s2"} : PlayerInput(s, "up")

SpecClose == InitClose /\ [][NextClose]_vars

(***************************************************************************)
(* Claims                                                                  *)
(***************************************************************************)
\* C1: in one session the gameEnded event is emitted at most once, whatever
\* the interleaving of ticker firings, the inactivity watchdog, quitGame
\* and disconnects.
C1_GameEndedOnce == gameEndedCount <= 1


\* the snakes of all players
Snakes(gs) == [p \in GsIds(gs) |-> gs.players[p].snake]

\* C2: while the game is paused (from the accepted pauseGame until the
\* resume countdown reaches 0) the tick counter, the timer and every snake
\* keep their values, whatever happens meanwhile.
C2_PausedFrozen ==
  [][(gameState.isPaused /\ gameState'.isPaused) =>
       /\ gameState'.tickCount = gameState.tickCount
       /\ gameState'.timer = gameState.timer
       /\ Snakes(gameState') = Snakes(gameState)]_vars

\* C3: at most one countdown is active in a room: never a start countdown
\* together with a resume countdown.
C3_OneCountdown == ~(room.countdownActive /\ room.resumeCountdownActive)

\* the resume countdown has just reached 0
ResumeFinished == "resumeCountdown" \in emitted /\ ~room.resumeCountdownActive

\* C8: in a multi-player room, when the resume countdown reaches 0 with the
\* total pause time at or above 15 minutes, the game is ended: gameEnded is
\* emitted and the ticker is stopped.
C8_BudgetForcesEnd ==
  (/\ room.gameMode = "multi-player"
   /\ ResumeFinished
   /\ gameState.totalPauseTime >= MAX_PAUSE_TIME)
    => ("gameEnded" \in emitted /\ gameLoops = 0 /\ ~room.isGameActive)

\* C9: in solo and single-player rooms the pause budget is unbounded: a
\* pauseGame of the player is rejected only when no game is running, and a
\* resume countdown that reaches 0 ends with gameResumed and without
\* resumeError.
C9_SoloPauseUnbounded ==
  room.gameMode \in {"solo", "single-player"} =>
    /\ ResumeFinished => ("gameResumed" \in emitted /\ "resumeError" \notin emitted)
    /\ "pauseError" \in emitted =>
         \/ ~room.countdownActive /\ ~room.isGameActive
         \/ \A s \in Sockets : getPlayerBySocket(room, s) = NoPlayer
         \/ getPlayerBySocket(room, "s2") = NoPlayer


\* C4: for every alive player the queued direction is never the opposite of
\* the committed direction, also after a tick that gave the player no
\* movement sub-step.
C4_NoReversalQueued ==
  \A p \in AlivePlayers(gameState) :
    opposites(gameState.players[p].nextDirection) # gameState.players[p].direction


\* the last tick found the time limit reached
TimeLimitReached ==
  /\ gameState.startTime > 0
  /\ gameState.timeLimit # 0
  /\ gameState.timer * 1000 >= gameState.timeLimit

\* C5: once a tick finds the un-paused elapsed time at or above the time
\* limit the game is over: the ticker is stopped and gameEnded was emitted.
C5_TimeLimitEndsGame ==
  TimeLimitReached => (gameLoops = 0 /\ ~room.isGameActive /\ gameEndedCount >= 1)

\* a multi-player playerReady handler has just run
ReadyHandled == "playerReadyStatus" \in emitted /\ "playerLeft" \notin emitted

\* C6: the start countdown starts if and only if every human member of the
\* room is ready: it is never started while a human member is missing from
\* readyPlayers, and a playerReady after which readyPlayers contains every
\* current human member broadcasts allPlayersReady and arms the countdown.
C6_CountdownIffAllReady ==
  [][/\ (~room.countdownActive /\ room'.countdownActive)
          => RoomHumans(room') \subseteq room'.readyPlayers
     /\ (ReadyHandled' /\ RoomHumans(room') \subseteq room'.readyPlayers)
          => ("allPlayersReady" \in emitted' /\ readyTimeouts' > 0)]_vars

\* C7: in every state with a running ticker, the rate of the ticker is the
\* tick rate of the current level.
C7_TickerFollowsLevel ==
  gameLoops # 0 => gameLoops = calculateTickRate(gameState.level, room.gameMode)

\* C10: the step that completes a resume shifts the last input time of every
\* player by the duration of the pause, and the idle time of every player
\* right after it is the idle time when the pause began.
C10_PauseShiftsLastInput ==
  [][(gameState.isPaused /\ ~gameState'.isPaused) =>
       \A p \in GsIds(gameState) :
         /\ gameState'.lastPlayerInputTime[p] =
              gameState.lastPlayerInputTime[p] + (now - gameState.pauseStartedAt)
         /\ now - gameState'.lastPlayerInputTime[p] = idleAtPause[p]]_vars

\* the step handles a joinRoom
JoinHandled == emitted' \cap {"joinedRoom", "joinError"} # {}

\* C11: a joinRoom whose playerToken is registered in a multi-player room
\* that has not started is answered with joinedRoom carrying the playerId the
\* token was registered for, and leaves the member ids of the room unchanged.
C11_TokenRejoinsSamePlayer ==
  [][(/\ JoinHandled
      /\ room.gameMode = "multi-player"
      /\ gameState.startTime = 0
      /\ room.playerTokens[lastJoin'.token] # NoPlayer)
     => (/\ "joinedRoom" \in emitted'
         /\ lastJoin'.playerId = room.playerTokens[lastJoin'.token]
         /\ DOMAIN room'.players = DOMAIN room.players)]_vars

\* the server rejects direction d sent on connection s: the sender is not a
\* live player of the game, it already had an input accepted in this tick, or
\* d is the opposite of its queued direction
InputRejected(s, d) ==
  LET p == getPlayerBySocket(room, s)
  IN \/ p \notin GsIds(gameState)
     \/ ~gameState.players[p].isAlive
     \/ gameState.lastInputTick[p] = gameState.tickCount
     \/ opposites(d) = gameState.players[p].nextDirection

\* the input state of the players: queued direction, last input time,
\* inactivity warning and last input tick
InputState(gs) ==
  [p \in GsIds(gs) |-> <<gs.players[p].nextDirection, gs.lastPlayerInputTime[p],
                         p \in gs.inactivityWarnings, gs.lastInputTick[p]>>]

\* C12: a playerInput that is rejected leaves the queued direction, the last
\* input time, the inactivity warning and the last input tick of every player
\* as they were.
C12_RejectedInputNoEffect ==
  [][\A s \in Sockets, d \in Directions :
       (PlayerInput(s, d) /\ InputRejected(s, d))
         => InputState(gameState') = InputState(gameState)]_vars

\* the simulation has not begun, or a start-countdown is running
NotBegun == gameState.startTime = 0 \/ room.countdownActive

\* the players that are alive
Alive(gs) == {p \in GsIds(gs) : gs.players[p].isAlive}

\* the queued direction of every player
Queued(gs) == [p \in GsIds(gs) |-> gs.players[p].nextDirection]

C14_SnakeCellsDistinct ==
  \A p \in AlivePlayers(gameState) :
    Cardinality(SnakeCells(gameState.players[p].snake)) = Len(gameState.players[p].snake)

\* C15: no food item lies on a segment of the snake of an alive player, and
\* no two food items are on the same cell.
C15_FoodCellsFree ==
  /\ \A i \in 1..Len(gameState.food), p \in AlivePlayers(gameState) :
       gameState.food[i] \notin SnakeCells(gameState.players[p].snake)
  /\ \A i, j \in 1..Len(gameState.food) :
       i # j => gameState.food[i] # gameState.food[j]

C17_KickAtThreshold ==
  [][(/\ room.gameMode = "multi-player"
      /\ room.isGameActive
      /\ ~room.countdownActive
      /\ ~room.isPaused
      /\ ~gameState.isPaused
      /\ gameState.startTime > 0
      /\ GameLoopTick(MaxTick, "none"))
     => \A p \in AlivePlayers(gameState) \cap HumanPlayers(gameState) \cap DOMAIN room.players :
          /\ Idle(gameState, now)[p] >= INACTIVITY_THRESHOLD
               => /\ ~gameState'.players[p].isAlive
                  /\ p \notin DOMAIN room'.players
                  /\ \A k \in Tokens : room'.playerTokens[k] # p
                  /\ \A c \in Sockets : room'.socketToPlayerId[c] # p
                  /\ "playerLeft" \in emitted'
          /\ Idle(gameState, now)[p] < INACTIVITY_THRESHOLD
               => p \in DOMAIN room'.players]_vars

\* C18: when a connected member of a started multi-player game disconnects,
\* the member is marked disconnected and dead and no token maps to it any
\* more, and the game is over (not active, ticker stopped) if at most one
\* member is still connected; afterwards no joinRoom and no requestGameState
\* of a new connection changes the record of a disconnected member.
C18_DisconnectEndsSession ==
  [][/\ \A s \in Sockets :
          LET p == getPlayerBySocket(room, s)
          IN (/\ rooms
              /\ room.gameMode = "multi-player"
              /\ room.isGameActive
              /\ gameState.startTime > 0
              /\ p # NoPlayer
              /\ Disconnect(s))
             => /\ p \in DOMAIN room'.players
                /\ room'.players[p].disconnected
                /\ room'.players[p].socketId = NoSocket
                /\ p \in GsIds(gameState') => ~gameState'.players[p].isAlive
                /\ \A k \in Tokens : room'.playerTokens[k] # p
                /\ Cardinality({q \in DOMAIN room'.players :
                                  room'.players[q].socketId # NoSocket}) <= 1
                     => ~room'.isGameActive /\ gameLoops' = 0
     /\ (/\ rooms
         /\ room.gameMode = "multi-player"
         /\ gameState.startTime > 0
         /\ \E p \in DOMAIN room.players : room.players[p].disconnected
         /\ \/ \E k \in Tokens, n \in Names : JoinRoom("s3", k, n)
            \/ \E k \in Tokens : RequestGameState("s3", k))
        => \A p \in DOMAIN room.players :
             room.players[p].disconnected
             => p \in DOMAIN room'.players /\ room'.players[p] = room.players[p]]_vars

\* a member of a started multi-player game has disconnected, the game has
\* ended, and a joinRoom with the member's token has been answered
C18_Witness ==
  /\ room.gameMode = "multi-player"
  /\ gameState.startTime > 0
  /\ ~room.isGameActive
  /\ gameEndedCount > 0
  /\ \E p \in DOMAIN room.players :
       /\ room.players[p].disconnected
       /\ ~gameState.players[p].isAlive
       /\ lastJoin.token = room.players[p].token

\* C19: a started solo or single-player room whose human is disconnected
\* does not outlive the reconnection window of 30 s: every step of the clock
\* is longer than the window, so the clock never moves while such a room is
\* in the room table with its human still disconnected.
C19_DisconnectedSoloTimesOut ==
  [][now' # now
     => ~(/\ rooms
          /\ room.gameMode \in {"solo", "single-player"}
          /\ gameState.startTime > 0
          /\ room.isPaused
          /\ \E p \in RoomHumans(room) : room.players[p].disconnected)]_vars

\* C20: a solo or single-player room is removed from the room table as soon
\* as its game has ended: once gameEnded has been emitted the room is not in
\* the table.
C20_EndedSoloRoomRemoved ==
  (room.gameMode \in {"solo", "single-player"} /\ "gameEnded" \in emitted) => ~rooms

\* C21: a room that is no longer in the room table owns no running timer:
\* no ticker, no start-countdown or resume-countdown interval, no pending
\* disconnect or clean-up timeout.
C21_DeletedRoomHasNoTimer ==
  ~rooms => /\ gameLoops = 0
            /\ ~room.countdownInterval
            /\ ~room.resumeCountdownInterval
            /\ disconnectTimeouts = {}
            /\ cleanupTimeouts = 0
            /\ ~roomCleanupTimeout

\* C22: a session with an end timestamp has an end reason, one of the ten
\* listed values.
C22_EndedSessionHasReason ==
  session.endTime # 0
    => session.endReason \in {"winner_declared", "timeout", "player_inactive",
                              "player_inactive_disconnected", "all_players_disconnected",
                              "host_quit_no_players", "all_players_quit", "room_deleted",
                              "room_not_found", "game_ended"}

\* C23: a mutation of a public multi-player room (its membership or its
\* isPublic flag changes) sends publicRoomsUpdated to the connections, and
\* the room is in the listing sent iff it is public, its game has not
\* started, no countdown is active and it has one to three players
C23_ListingFollowsMutation ==
  [][(/\ rooms /\ rooms'
      /\ room.gameMode = "multi-player"
      /\ room.isPublic \/ room'.isPublic
      /\ \/ DOMAIN room'.players # DOMAIN room.players
         \/ room'.isPublic # room.isPublic)
     => /\ "publicRoomsUpdated" \in emitted'
        /\ publicRooms' <=> /\ room'.isPublic
                            /\ gameState'.startTime = 0
                            /\ ~room'.countdownActive
                            /\ Cardinality(DOMAIN room'.players) \in 1..3]_vars

\* C24: a connection is bound to at most one player of the room, whether
\* by room.socketToPlayerId or by the socketId of a member
C24_OneBindingPerSocket ==
  rooms => \A s \in Sockets :
             Cardinality({p \in DOMAIN room.players :
                            \/ room.players[p].socketId = s
                            \/ room.socketToPlayerId[s] = p}) <= 1

\* C25: a step that elects a host (hostChanged is sent) leaves isHost in
\* gameState.players true for the member elected and false for every other
\* player
C25_GameStateFollowsElection ==
  [][(rooms' /\ "hostChanged" \in emitted')
     => \A p \in DOMAIN gameState'.players :
          gameState'.players[p].isHost
            <=> /\ p \in DOMAIN room'.players
                /\ room'.players[p].isHost
                /\ p \in DOMAIN room.players => ~room.players[p].isHost]_vars

\* C26: in a tick of one movement sub-step (no power-ups), a mover who
\* survives and whose new head cell held food has that food removed, its
\* score raised by 10, totalFoodEaten by 1, its length by 1, and one food
\* spawned in replacement; any other surviving mover keeps its score and
\* its length, and leaves its tail cell
C26_SurvivorEatsOrSlides ==
  [][(/\ rooms /\ rooms'
      /\ ~room.enablePowerups
      /\ gameState'.tickCount = gameState.tickCount + 1
      /\ Cardinality(AlivePlayers(gameState)) = 1)
     => \A p \in AlivePlayers(gameState) \cap AlivePlayers(gameState') :
          LET old == gameState.players[p]
              new == gameState'.players[p]
              head == new.snake[1]
          IN IF head \in SeqToSet(gameState.food)
             THEN /\ new.score = old.score + 10
                  /\ gameState'.totalFoodEaten = gameState.totalFoodEaten + 1
                  /\ Len(new.snake) = Len(old.snake) + 1
                  /\ head \notin SeqToSet(gameState'.food)
                  /\ Len(gameState'.food) = Len(gameState.food)
             ELSE /\ new.score = old.score
                  /\ Len(new.snake) = Len(old.snake)
                  /\ gameState'.food = gameState.food
                  /\ old.snake[Len(old.snake)] \notin SnakeCells(new.snake)]_vars

\* C27: in a multi-player game with walls or strict mode, without
\* power-ups, a mover whose new head is in the grid, off its own body and not
\* the new head of the other player dies if it lands on the head segment of
\* the other alive snake; if it lands on another segment of that snake it
\* dies in strict mode and survives otherwise.  The other snake is taken as
\* it is when the mover is processed: moved already if it precedes the
\* mover in gameState.players.
C27_BodyHitKillsIffStrict ==
  [][(/\ room.gameMode = "multi-player"
      /\ ~room.enablePowerups
      /\ gameState.wallMode \/ gameState.strictMode
      /\ gameState'.tickCount = gameState.tickCount + 1)
     => \A p \in AlivePlayers(gameState) : \A q \in AlivePlayers(gameState) \ {p} :
          LET mover == gameState.players[p]
              head == NewHead(mover.snake[1], mover.nextDirection, gameState.wallMode)
              other == IF IndexOf(q) < IndexOf(p)
                       THEN gameState'.players[q] ELSE gameState.players[q]
              otherHead == NewHead(gameState.players[q].snake[1],
                                   gameState.players[q].nextDirection, gameState.wallMode)
              clear == /\ head.x \in 0..(GRID_WIDTH - 1)
                       /\ head.y \in 0..(GRID_HEIGHT - 1)
                       /\ \A i \in 2..Len(mover.snake) : mover.snake[i] # head
                       /\ head # otherHead
                       /\ Idle(gameState, now)[p] < INACTIVITY_THRESHOLD
          IN (clear /\ other.isAlive)
             => /\ head = other.snake[1] => ~gameState'.players[p].isAlive
                /\ (/\ head # other.snake[1]
                    /\ \E i \in 2..Len(other.snake) : other.snake[i] = head)
                   => (gameState'.players[p].isAlive <=> ~gameState.strictMode)]_vars

\* strict mode: the first player is dead in front of a segment of the alive
\* second player that is not its head
C27_Witness ==
  /\ room.gameMode = "multi-player"
  /\ gameState.strictMode
  /\ gameState.tickCount = MaxCloseTick
  /\ ~gameState.players["p1"].isAlive
  /\ gameState.players["p2"].isAlive
  /\ LET mover == gameState.players["p1"]
         other == gameState.players["p2"].snake
         head == NewHead(mover.snake[1], mover.direction, gameState.wallMode)
     IN /\ head # other[1]
        /\ \E i \in 2..Len(other) : other[i] = head
        /\ \A i \in 2..Len(mover.snake) : mover.snake[i] # head

C30_SlowedSurvivesCollection ==
  [][(/\ room.enablePowerups
      /\ gameState'.tickCount = gameState.tickCount + 1)
     => \A p \in AlivePlayers(gameState) \cap AlivePlayers(gameState') :
          LET old == gameState.players[p].activePowerups
              new == gameState'.players[p].activePowerups
              k == PowerupAt(gameState.powerups, gameState.players[p].snake[1])
              type == gameState.powerups[k].type
              key == CASE type = "shield" -> "shield"
                       [] type = "speed_boost" -> "speedBoost"
                       [] type = "shrink" -> "shrink"
          IN (/\ k # 0
              /\ type \in {"shield", "speed_boost", "shrink"}
              /\ old.slowed > now)
             => /\ new[key] = now + POWERUP_DURATION
                /\ \A other \in {"shield", "speedBoost", "shrink"} \ {key} : new[other] = 0
                /\ new.slowed = old.slowed]_vars

\* C31: a multi-player room of the room table that has members has exactly
\* one member with isHost
C31_ExactlyOneHost ==
  (rooms /\ room.gameMode = "multi-player" /\ DOMAIN room.players # {})
    => Cardinality({p \in DOMAIN room.players : room.players[p].isHost}) = 1

\* C32: every segment of every snake is a cell of the grid
C32_SegmentsInGrid ==
  \A p \in GsIds(gameState) :
    \A i \in 1..Len(gameState.players[p].snake) :
      /\ gameState.players[p].snake[i].x \in 0..(GRID_WIDTH - 1)
      /\ gameState.players[p].snake[i].y \in 0..(GRID_HEIGHT - 1)

\* C33: in a running multi-player game with its two players alive, the
\* movement sub-step of the two players leaves the same dead players and the
\* same snakes whether the first or the second player is processed first
C33_OrderIndependent ==
  (/\ rooms
   /\ room.gameMode = "multi-player"
   /\ room.isGameActive
   /\ gameState.startTime > 0
   /\ AlivePlayers(gameState) = {"p1", "p2"})
    => LET Outcome(g) == [dead |-> GsIds(g) \ AlivePlayers(g),
                          snakes |-> [p \in GsIds(g) |-> g.players[p].snake]]
           After(order) ==
             {Outcome(g) : g \in advancePlayersInOrder(gameState, {"p1", "p2"}, order,
                                                      room.gameMode, room.enablePowerups,
                                                      now, rngCells)}
       IN After(<<"p1", "p2">>) = After(<<"p2", "p1">>)

\* C34: a clean-up timer that fires while the room table holds a room
\* created anew under the code (it has no game state: the timer was armed
\* for the game of an earlier room) leaves that room in the room table
C34_TimerSparesNewRoom ==
  [][(rooms /\ gameState = NoGameState /\ cleanupTimeouts' < cleanupTimeouts)
     => rooms']_vars

\* C35: while a multi-player room with a game state stays in the room
\* table, no step replaces the game state of a game that has begun: the tick
\* does not decrease and startEpochMs, once set, stays
C35_StartGameKeepsGame ==
  [][(rooms /\ rooms' /\ room.gameMode = "multi-player"
      /\ gameState # NoGameState /\ gameState.startTime > 0)
     => /\ gameState'.tickCount >= gameState.tickCount
        /\ gameState'.startTime = gameState.startTime]_vars

\* C36: in a game that is never paused, a human is warned only when 45 s,
\* and removed from the room for inactivity only when 60 s, have passed
\* since the later of the start of the simulation and that player's last
\* input: the time spent in the Ready phase and the start-countdown does
\* not count
C36_ReadyPhaseNotCounted ==
  [][\A p \in HumanPlayers(gameState) \cap DOMAIN room.players :
       LET since == Max(gameState.startTime, gameState.lastPlayerInputTime[p])
       IN /\ (p \in gameState'.inactivityWarnings \ gameState.inactivityWarnings)
               => now - since >= WARNING_THRESHOLD
          /\ (p \notin DOMAIN room'.players)
               => now - since >= INACTIVITY_THRESHOLD]_vars

\* C37: the session record a room refers to is the record of that room, so
\* no two rooms share a record and none is overwritten by the start of
\* another room's game
C37_OwnSessionRecord ==
  \A c \in RoomCodes :
    sessionIds[c] # NoSessionId
      => /\ sessionIds[c] \in DOMAIN gameSessions
         /\ gameSessions[sessionIds[c]].roomCode = c

\* C38: once the game state of a room has been built, every human member
\* of the room has an entry with a snake in gameState.players
C38_MembersInGameState ==
  (rooms /\ gameState # NoGameState)
    => \A p \in RoomHumans(room) :
         /\ p \in GsIds(gameState)
         /\ Len(gameState.players[p].snake) >= 1

\* C39: the timer of the game, in seconds, is never negative
C39_TimerNotNegative ==
  gameState.timer >= 0

\* C40: once the start-countdown has completed (the simulation has begun),
\* no step starts another start-countdown
C40_CountdownRunsOnce ==
  [][(rooms /\ gameState.startTime > 0 /\ ~room.countdownActive)
     => ~room'.countdownActive]_vars

====
